---- MODULE Spec2Model ----
\* Verification model of the smart-home API gateway core
\* (gateway_cli/internal/gateway): the token-bucket rate limiter, the
\* middleware chain in front of the proxy engine, and the proxy engine with
\* its metrics aggregator.
EXTENDS Integers, Sequences, FiniteSets, TLC

\* ------------------------------------------------------------------------
\* Bounds of the model
\* ------------------------------------------------------------------------
MaxProcs == 2        \* concurrent tasks (callers of Allow / inbound requests)
MaxBurst == 2        \* burst sizes 1..MaxBurst are explored
MaxTicks == 2        \* clock advances in one behaviour of concurrent callers
MaxCalls == MaxBurst + 1     \* calls in one behaviour of concurrent callers
MaxSeqTicks == MaxTicks + 1  \* clock advances with one caller at a time
MaxSeqCalls == MaxBurst + 2  \* calls with one caller at a time
MaxForwards == 2     \* ProxyRequest calls in one behaviour
MaxRequests == 2     \* inbound HTTP requests in one behaviour
MaxProbes == 2       \* on-demand CheckServiceHealth calls in one behaviour, and
                     \* rounds of each background loop
MaxValidates == 2    \* calls of validateTokenViaRedis
MaxMessages == 2     \* messages appended to auth-responses

\* ------------------------------------------------------------------------
\* Program constants
\* ------------------------------------------------------------------------
SecondsPerMinute == 60      \* the divisor 60.0 of the refill formula
CleanupInterval == 5 * SecondsPerMinute    \* time.NewTicker(5 * time.Minute)
IdleRetention == 10 * SecondsPerMinute     \* 10*time.Minute

\* ------------------------------------------------------------------------
\* Inputs
\* ------------------------------------------------------------------------
Procs == 1..MaxProcs
ClientIDs == {"c1"}
RpmValues == {1, 2}             \* requests per minute (divisors of 60)
BurstValues == 1..MaxBurst
TimeSteps == {30, 2 * IdleRetention}   \* seconds the clock may jump at once

ServiceNames == {"echo", "ghost"}  \* service names a caller may pass
Registry == {"echo", "lamp"}       \* cfg.Services.Registry
Statuses == {199, 200, 399, 400}   \* upstream status codes
Durations == {10}              \* elapsed milliseconds of an upstream call

\* header names of an inbound request, as net/http canonicalises them
HeaderNames == {"Authorization", "Content-Type", "X-User-ID", "X-Custom"}
HeaderValues == {"", "a", "b"}
\* values Auth may have put in the request context under "user_id"
Users == {"a", "b"}
NoCtx == "unset"

\* tasks that run performHealthCheck: the goroutine that checkAllServices
\* starts for a service, named by the service, and a caller of
\* CheckServiceHealth
Callers == {"caller"}
ProbeTasks == Registry \cup Callers
ProbeStatuses == {199, 200, 201, 503}    \* status codes a probe may receive
ProbeErrors == {"context deadline exceeded", "connection refused"}

NoClient == "none"
NoAddr == 0
NoCall == [t |-> -1, left |-> -1, admit |-> -1]
\* addresses of ClientLimiter objects: one per table entry plus one per task
Addrs == 1..(Cardinality(ClientIDs) + MaxProcs)
FreeLimiter == [tokens |-> 0, lastRefill |-> 0, mu |-> 0]

VARIABLES
    now,        \* time.Now(), in seconds
    nticks,     \* number of clock advances so far
    ncalls,     \* number of calls started so far
    rpm,        \* RateLimiter.rpm
    burst,      \* RateLimiter.burst
    clients,    \* RateLimiter.clients: client id -> address (NoAddr: absent)
    limiters,   \* heap of ClientLimiter objects: address -> record
    rlmu,       \* RateLimiter.mu: "free", or "cleanup" while the sweep holds it
    pc,         \* position of each task
    cid,        \* clientID argument of the task's Allow call
    client,     \* local variable client of Allow (an address)
    ok,         \* value returned by the task's last Allow call
    hist,       \* per client, the Allow calls of the current instant in
                \* the order of their refill-and-consume steps: [ok, left]
    lastCall,   \* per client, the last Allow call of an earlier instant:
                \* [t, left] and the time admit of the client's last
                \* admission until then (-1: none), or NoCall for a client
                \* not seen before
    firstSeen,  \* per client, the time its first Allow call started (-1: none)
    swpc,       \* position of the cleanup goroutine
    swtodo,     \* clients the running sweep has still to visit
    swnow,      \* local variable now of cleanup
    sweepDue    \* time of the next tick of the cleanup ticker

VARIABLES
    started,    \* GatewayProcessor.Start has run
    services,   \* keys of GatewayProcessor.services
    metrics,    \* GatewayProcessor.metrics (GatewayMetrics)
    metricsMu,  \* GatewayMetrics.mu: 0 free, else the task holding it
    streams,    \* number of events on logs-stream, on metrics-stream and
                \* on auth-requests
    svc,        \* argument service of the task's ProxyRequest call
    urm,        \* arguments of the running updateRequestMetrics call and
                \* the position to continue at: [success, ret]
    resp,       \* what the task's call got and returns: [err, status, duration]
    trace,      \* what the task's call has done so far: log events and
                \* metrics events published, upstream calls made, success,
                \* error and latency updates applied to the metrics
    made,       \* per service name, ProxyRequest calls started
    okDone,     \* per service name, calls returned with a status in [200,400)
    snap,       \* value that GetMetrics has just returned, with the values
                \* of made and okDone at that point; none once another
                \* step of the processor has been taken
    req         \* the task's inbound HTTP request: whether the rate limiter
                \* denied it, the validation requests it published on
                \* auth-requests, and the status code written to the caller

VARIABLES
    hpc,        \* position of the request in the handler: "inbound", then
                \* "extracted", then "built"
    inbound,    \* r.Header of the inbound request: name -> value
    ctxUser,    \* r.Context().Value("user_id"), as set by Auth (NoCtx: unset)
    headers,    \* argument headers of ProxyRequest
    userID,     \* argument userID of ProxyRequest
    outbound    \* req.Header of the outbound request: name -> value

VARIABLES
    gpMu,        \* GatewayProcessor.mu: "free", or the task holding it locked
    healthStats, \* GatewayProcessor.healthStats: service -> result
    mHealth,     \* GatewayProcessor.metrics.HealthStats: service -> result
    nobj,        \* number of HealthCheckResult objects made by probes
    nprobes,     \* number of CheckServiceHealth calls started
    prb,         \* per probing task: its position, its service, what the
                 \* probe got ([err, status]), its result object, and
                 \* the error it returns
    lastStore,   \* per service, the Timestamp of the result stored last in
                 \* healthStats
    status       \* value that GetServicesStatus has just returned, with the
                 \* service table and lastStore at that point; none once
                 \* another step of the health checker has been taken

VARIABLES
    alive,       \* the gateway process is running
    stopChan,    \* GatewayProcessor.stopChan: "open" or "closed"
    hlpc,        \* position of the StartHealthChecker goroutine
    hlServices,  \* local variable services of the running checkAllServices
    hlRounds,    \* number of checkAllServices calls started
    mcpc,        \* position of the StartMetricsCollector goroutine
    mcRounds,    \* number of collectAndPublishMetrics calls made
    mcCopy       \* the copy of the current call: its services, those still
                 \* to publish, and the events the call has published

VARIABLES
    kept         \* the value of GetMetrics that a reader keeps: the objects
                 \* it is made of, and what the reader saw in it when the
                 \* call returned

VARIABLES
    vpc,            \* position of each validateTokenViaRedis call
    vret,           \* what the call returns: [user, err]
    vmsg,           \* the message that the call's XReadGroup returned
    windowElapsed,  \* the call's XReadGroup blocked for the whole timeout
    answered,       \* a valid response with the call's request id was
                    \* appended while the call was blocked in XReadGroup
    authResponses,  \* the stream auth-responses: a sequence of messages,
                    \* each marked late if its request had timed out
                    \* before it was appended
    lastDelivered,  \* consumer group gateway-auth: number of messages of
                    \* the stream delivered to its consumers
    pending,        \* consumer group gateway-auth: messages delivered and
                    \* not acknowledged, with the consumer they went to
    acked           \* the XAck calls made, as the ids they named, in order

rlVars == <<now, nticks, ncalls, rpm, burst, clients, limiters, rlmu, pc, cid, client,
            ok, hist, lastCall, firstSeen, swpc, swtodo, swnow, sweepDue>>

clockVars == <<now, nticks, ncalls>>
cfgVars == <<rpm, burst>>
sweepVars == <<swpc, swtodo, swnow, sweepDue>>
histVars == <<hist, lastCall, firstSeen>>

gpVars == <<started, services, metrics, metricsMu, streams>>
callVars == <<svc, urm, resp, trace, made, okDone>>

hdrVars == <<hpc, inbound, ctxUser, headers, userID, outbound>>

hcVars == <<gpMu, healthStats, mHealth, nobj, nprobes, prb, lastStore, status>>

\* the state of the operations modelled on their own
\* the collector before its first copy
NoCopy == [services |-> {}, todo |-> {}, sent |-> 0]

\* the holder of the metrics read lock inside collectAndPublishMetrics
Collector == -2

loopVars ==
    <<alive, stopChan, hlpc, hlServices, hlRounds, mcpc, mcRounds, mcCopy>>

valVars == <<vpc, vret, vmsg, windowElapsed, answered, authResponses,
            lastDelivered, pending, acked>>

extVars == <<hdrVars, hcVars, loopVars, kept, valVars>>

NoHeaders == [h \in {} |-> ""]

\* no request is in the handler
IdleHeaders ==
    /\ hpc = "idle"
    /\ inbound = NoHeaders
    /\ ctxUser = NoCtx
    /\ headers = NoHeaders
    /\ userID = ""
    /\ outbound = NoHeaders

NoErr == "nil"
NoCode == 0
\* no HealthCheckResult
NoResult == [Service |-> "", Status |-> "", Error |-> "", Timestamp |-> 0,
             id |-> 0]
NoHealth == [s \in {} |-> NoResult]
NoGot == [err |-> NoErr, status |-> NoCode]
NoStatus == [taken |-> FALSE]
NoProbe == [pc |-> "idle", service |-> "", got |-> NoGot,
            result |-> NoResult, err |-> NoErr]

\* NewGatewayProcessor, lines 55 and 58: both health tables are empty
IdleHealth ==
    /\ gpMu = "free"
    /\ healthStats = NoHealth
    /\ mHealth = NoHealth
    /\ nobj = 0
    /\ nprobes = 0
    /\ prb = [t \in ProbeTasks |-> NoProbe]
    /\ lastStore = [s \in {} |-> 0]
    /\ status = NoStatus

\* main, before Server.Start: the process runs, the stop channel is open and
\* neither background goroutine has been launched
IdleLoops ==
    /\ alive = TRUE
    /\ stopChan = "open"
    /\ hlpc = "off"
    /\ hlServices = {}
    /\ hlRounds = 0
    /\ mcpc = "off"
    /\ mcRounds = 0
    /\ mcCopy = NoCopy

NoKept == [taken |-> FALSE]

\* the calls of validateTokenViaRedis; call c generates request id c
ValidateCalls == 1..MaxValidates
\* request id of a validation asked by another gateway instance
Foreign == 0
NoUser == 0
NoMsg == [RequestID |-> -1, Valid |-> FALSE, User |-> NoUser, late |-> FALSE]
NoRet == [user |-> NoUser, err |-> NoErr]

\* no validation has been asked and auth-responses is empty
IdleValidate ==
    /\ vpc = [c \in ValidateCalls |-> "idle"]
    /\ vret = [c \in ValidateCalls |-> NoRet]
    /\ vmsg = [c \in ValidateCalls |-> NoMsg]
    /\ windowElapsed = [c \in ValidateCalls |-> FALSE]
    /\ answered = [c \in ValidateCalls |-> FALSE]
    /\ authResponses = <<>>
    /\ lastDelivered = 0
    /\ pending = {}
    /\ acked = <<>>

IdleExt == IdleHeaders /\ IdleHealth /\ IdleLoops /\ kept = NoKept /\ IdleValidate

\* the processor and the requests in the chain
nonRLVarsBase == <<gpVars, callVars, snap, req>>
\* everything the rate limiter does not touch
nonRLVars == <<nonRLVarsBase, extVars>>
\* everything outside the processor that the proxy engine does not touch
rlState == <<now, nticks, cfgVars, clients, limiters, rlmu, cid, client, ok,
             histVars, sweepVars, req, extVars>>

vars == <<rlVars, gpVars, callVars, snap, req, extVars>>

\* ------------------------------------------------------------------------
\* Rate limiter (middleware/rate_limiter.go)
\* ------------------------------------------------------------------------

\* addresses reachable from the table or from a task's local variable
Referenced(cl, held) ==
    {cl[c] : c \in ClientIDs} \cup {held[p] : p \in Procs}

\* the garbage collector: unreachable limiters are freed
Collect(lim, cl, held) ==
    [a \in Addrs |-> IF a \in Referenced(cl, held) THEN lim[a] ELSE FreeLimiter]

NewAddr == CHOOSE a \in Addrs :
              /\ a \notin Referenced(clients, client)
              /\ \A b \in Addrs : b \notin Referenced(clients, client) => a <= b

\* a refill that takes rpm for a rate per hour
TokensToAddPerHour(elapsed, r) == (elapsed * r) \div (60 * SecondsPerMinute)

\* tokensToAdd := int(elapsed.Seconds() * float64(rpm) / 60.0)
TokensToAdd(elapsed, r) == (elapsed * r) \div SecondsPerMinute

Min(a, b) == IF a < b THEN a ELSE b

\* a refill without the cap at burst
RefillUncapped(cl, t, r, b) == cl.tokens + TokensToAdd(t - cl.lastRefill, r)

\* tokens after the refill and the cap at burst
Refill(cl, t, r, b) == Min(cl.tokens + TokensToAdd(t - cl.lastRefill, r), b)

\* an allow that admits the request without consuming a token
allowStateNoConsume(cl, t, r, b) ==
    [cl EXCEPT !.tokens = Refill(cl, t, r, b), !.lastRefill = t, !.mu = 0]

\* the ClientLimiter after allow(rpm, burst) at time t, and the value returned
allowState(cl, t, r, b) ==
    [cl EXCEPT !.tokens = IF Refill(cl, t, r, b) > 0
                           THEN Refill(cl, t, r, b) - 1
                           ELSE Refill(cl, t, r, b),
               !.lastRefill = t,
               !.mu = 0]

allowResult(cl, t, r, b) == Refill(cl, t, r, b) > 0

\* NewRateLimiter: the state after construction
InitRateLimiter ==
    /\ now = 0
    /\ nticks = 0
    /\ ncalls = 0
    /\ rpm \in RpmValues
    /\ burst \in BurstValues
    /\ clients = [c \in ClientIDs |-> NoAddr]
    /\ limiters = [a \in Addrs |-> FreeLimiter]
    /\ rlmu = "free"
    /\ pc = [p \in Procs |-> "idle"]
    /\ cid = [p \in Procs |-> NoClient]
    /\ client = [p \in Procs |-> NoAddr]
    /\ ok = [p \in Procs |-> FALSE]
    /\ hist = [c \in ClientIDs |-> <<>>]
    /\ lastCall = [c \in ClientIDs |-> NoCall]
    /\ firstSeen = [c \in ClientIDs |-> -1]
    /\ swpc = "wait"
    /\ swtodo = {}
    /\ swnow = 0
    /\ sweepDue = CleanupInterval

\* the clock advances, at most limit times
Advance(limit) ==
    /\ nticks < limit
    /\ \E d \in TimeSteps : now' = now + d
    /\ nticks' = nticks + 1
    /\ UNCHANGED ncalls
    /\ lastCall' = [c \in ClientIDs |->
                       IF hist[c] = <<>> THEN lastCall[c]
                       ELSE [t |-> now, left |-> hist[c][Len(hist[c])].left,
                             admit |-> IF \E i \in 1..Len(hist[c]) : hist[c][i].ok
                                       THEN now
                                       ELSE lastCall[c].admit]]
    /\ hist' = [c \in ClientIDs |-> <<>>]
    /\ UNCHANGED <<nonRLVars, cfgVars, firstSeen, sweepVars, clients, limiters,
                   rlmu, pc, cid, client, ok>>

\* a task calls rl.Allow(c); at most limit calls are made
Call(p, c, limit) ==
    /\ pc[p] = "idle"
    /\ ncalls < limit
    /\ ncalls' = ncalls + 1
    /\ pc' = [pc EXCEPT ![p] = "lookup"]
    /\ cid' = [cid EXCEPT ![p] = c]
    /\ firstSeen' = [firstSeen EXCEPT ![c] = IF @ = -1 THEN now ELSE @]
    /\ UNCHANGED <<nonRLVars, now, nticks, cfgVars, sweepVars, hist, lastCall,
                   clients, limiters, rlmu, client, ok>>

\* Allow, lines 59-61: the lookup under the read lock
AllowLookup(p) ==
    /\ pc[p] = "lookup"
    /\ rlmu = "free"
    /\ client' = [client EXCEPT ![p] = clients[cid[p]]]
    /\ pc' = [pc EXCEPT ![p] = IF clients[cid[p]] = NoAddr THEN "create" ELSE "allow"]
    /\ UNCHANGED <<nonRLVars, clockVars, cfgVars, sweepVars, histVars,
                   clients, limiters, rlmu, cid, ok>>

\* Allow, lines 63-67: a record absent from the table is created full
AllowCreate(p) ==
    /\ pc[p] = "create"
    /\ client' = [client EXCEPT ![p] = NewAddr]
    /\ limiters' = [limiters EXCEPT ![NewAddr] =
                       [tokens |-> burst, lastRefill |-> now, mu |-> 0]]
    /\ pc' = [pc EXCEPT ![p] = "insert"]
    /\ UNCHANGED <<nonRLVars, clockVars, cfgVars, sweepVars, histVars,
                   clients, rlmu, cid, ok>>

\* Allow, lines 69-71: the new record is stored under the write lock
AllowInsert(p) ==
    /\ pc[p] = "insert"
    /\ rlmu = "free"
    /\ clients' = [clients EXCEPT ![cid[p]] = client[p]]
    /\ limiters' = Collect(limiters, clients', client)
    /\ pc' = [pc EXCEPT ![p] = "allow"]
    /\ UNCHANGED <<nonRLVars, clockVars, cfgVars, sweepVars, histVars,
                   rlmu, cid, client, ok>>

\* allow, line 78: cl.mu.Lock()
allowLock(p) ==
    /\ pc[p] = "allow"
    /\ limiters[client[p]].mu = 0
    /\ limiters' = [limiters EXCEPT ![client[p]].mu = p]
    /\ pc' = [pc EXCEPT ![p] = "allow_body"]
    /\ UNCHANGED <<nonRLVars, clockVars, cfgVars, sweepVars, histVars,
                   clients, rlmu, cid, client, ok>>

\* an allow that reads the client table again, under its lock, while it
\* holds the client's lock
allowUnderTable(p) ==
    /\ rlmu = "free"
    /\ pc[p] = "allow_body"
    /\ LET cl == limiters[client[p]]
           after == allowState(cl, now, rpm, burst)
           res == allowResult(cl, now, rpm, burst)
       IN /\ limiters' = [limiters EXCEPT ![client[p]] = after]
          /\ ok' = [ok EXCEPT ![p] = res]
          /\ hist' = [hist EXCEPT ![cid[p]] =
                         Append(@, [ok |-> res, left |-> after.tokens])]
    /\ pc' = [pc EXCEPT ![p] = "allow_ret"]
    /\ UNCHANGED <<nonRLVars, clockVars, cfgVars, sweepVars, clients,
                   rlmu, cid, client, lastCall, firstSeen>>

\* allow, lines 81-100: refill, cap, consume, unlock
allow(p) ==
    /\ pc[p] = "allow_body"
    /\ LET cl == limiters[client[p]]
           after == allowState(cl, now, rpm, burst)
           res == allowResult(cl, now, rpm, burst)
       IN /\ limiters' = [limiters EXCEPT ![client[p]] = after]
          /\ ok' = [ok EXCEPT ![p] = res]
          /\ hist' = [hist EXCEPT ![cid[p]] =
                         Append(@, [ok |-> res, left |-> after.tokens])]
    /\ pc' = [pc EXCEPT ![p] = "allow_ret"]
    /\ UNCHANGED <<nonRLVars, clockVars, cfgVars, sweepVars, clients,
                   rlmu, cid, client, lastCall, firstSeen>>

\* Allow returns to a direct caller
AllowReturn(p) ==
    /\ pc[p] = "allow_ret"
    /\ pc' = [pc EXCEPT ![p] = "idle"]
    /\ cid' = [cid EXCEPT ![p] = NoClient]
    /\ client' = [client EXCEPT ![p] = NoAddr]
    /\ ok' = [ok EXCEPT ![p] = FALSE]
    /\ limiters' = Collect(limiters, clients, client')
    /\ UNCHANGED <<nonRLVars, clockVars, cfgVars, sweepVars,
                   histVars, clients, rlmu>>

\* cleanup, lines 107-109: a tick of the ticker starts a sweep
cleanupStart ==
    /\ swpc = "wait"
    /\ now >= sweepDue
    /\ rlmu = "free"
    /\ rlmu' = "cleanup"
    /\ swnow' = now
    /\ swtodo' = {c \in ClientIDs : clients[c] # NoAddr}
    /\ sweepDue' = ((now \div CleanupInterval) + 1) * CleanupInterval
    /\ swpc' = "sweep"
    /\ UNCHANGED <<nonRLVars, clockVars, cfgVars, histVars, clients,
                   limiters, pc, cid, client, ok>>

\* cleanup, lines 111-117: one iteration of the range over the table
cleanupVisit(c) ==
    /\ swpc = "sweep"
    /\ c \in swtodo
    /\ limiters[clients[c]].mu = 0
    /\ clients' = IF swnow - limiters[clients[c]].lastRefill > IdleRetention
                   THEN [clients EXCEPT ![c] = NoAddr]
                   ELSE clients
    /\ limiters' = Collect(limiters, clients', client)
    /\ swtodo' = swtodo \ {c}
    /\ UNCHANGED <<nonRLVars, clockVars, cfgVars, histVars, rlmu, pc,
                   cid, client, ok, swpc, swnow, sweepDue>>

\* cleanup, line 119: the sweep releases the table lock
cleanupEnd ==
    /\ swpc = "sweep"
    /\ swtodo = {}
    /\ rlmu' = "free"
    /\ swpc' = "wait"
    /\ swnow' = 0
    /\ UNCHANGED <<nonRLVars, clockVars, cfgVars, histVars, clients, limiters, pc,
                   cid, client, ok, swtodo, sweepDue>>

cleanup == cleanupStart \/ (\E c \in ClientIDs : cleanupVisit(c)) \/ cleanupEnd

\* Allow, from the lookup to the return value
Allow(p) == AllowLookup(p) \/ AllowCreate(p) \/ AllowInsert(p)
               \/ allowLock(p) \/ allow(p)

\* ------------------------------------------------------------------------
\* Proxy engine and metrics aggregator (processors/gateway_processor.go)
\* ------------------------------------------------------------------------

RECURSIVE GCD(_, _)
GCD(a, b) == IF b = 0 THEN a ELSE GCD(b, a % b)

\* the fraction n/d in lowest terms (a float64 average, kept exact)
Rat(n, d) == [num |-> n \div GCD(n, d), den |-> d \div GCD(n, d)]

NoResp == [err |-> NoErr, status |-> NoCode, duration |-> 0]
NoTrace == [logs |-> 0, events |-> 0, http |-> 0, succ |-> 0, err |-> 0, lat |-> 0]
NoUrm == [success |-> FALSE, ret |-> "idle"]
NoSnap == [taken |-> FALSE]
NoReq == [limited |-> FALSE, authSent |-> 0, code |-> NoCode]

\* &ServiceMetrics{}
ZeroServiceMetrics ==
    [TotalRequests |-> 0, SuccessRequests |-> 0, ErrorRequests |-> 0,
     AverageLatency |-> Rat(0, 1), LastRequest |-> -1]

\* NewGatewayProcessor: the state after construction
InitProcessor ==
    /\ started = FALSE
    /\ services = {}
    /\ metrics = [TotalRequests |-> 0, SuccessRequests |-> 0,
                  ErrorRequests |-> 0, AverageLatency |-> Rat(0, 1),
                  ServiceMetrics |-> [s \in {} |-> ZeroServiceMetrics]]
    /\ metricsMu = 0
    /\ streams = [logs |-> 0, metrics |-> 0, auth |-> 0]
    /\ svc = [p \in Procs |-> ""]
    /\ urm = [p \in Procs |-> NoUrm]
    /\ resp = [p \in Procs |-> NoResp]
    /\ trace = [p \in Procs |-> NoTrace]
    /\ made = [s \in ServiceNames \cup Registry |-> 0]
    /\ okDone = [s \in ServiceNames \cup Registry |-> 0]
    /\ snap = NoSnap
    /\ req = [p \in Procs |-> NoReq]

\* Start: the registry is copied into the service table, each service gets
\* its metrics entry, and the startup is logged
Start ==
    /\ ~started
    /\ gpMu = "free"
    /\ \A p \in Procs : pc[p] = "idle"
    /\ started' = TRUE
    /\ services' = Registry
    /\ metrics' = [metrics EXCEPT !.ServiceMetrics =
                      [s \in Registry |-> ZeroServiceMetrics]]
    /\ streams' = [streams EXCEPT !.logs = @ + 1]
    /\ UNCHANGED <<rlVars, metricsMu, callVars, req, extVars>>
    /\ snap' = NoSnap

\* ProxyRequest, lines 93-97: the call starts and goes to count the request
proxyEnter(p, s) ==
    /\ svc' = [svc EXCEPT ![p] = s]
    /\ resp' = [resp EXCEPT ![p] = NoResp]
    /\ trace' = [trace EXCEPT ![p] = NoTrace]
    /\ made' = [made EXCEPT ![s] = @ + 1]
    /\ urm' = [urm EXCEPT ![p] = [success |-> TRUE, ret |-> "pr_log"]]
    /\ pc' = [pc EXCEPT ![p] = "urm_total"]
    /\ UNCHANGED <<rlState, gpVars, okDone>>
    /\ snap' = NoSnap

\* a task calls gp.ProxyRequest(s, ...); tasks being interchangeable, the
\* call takes the first free one
ProxyRequest(p, s) ==
    /\ pc[p] = "idle"
    /\ \A q \in Procs : q < p => pc[q] # "idle"
    /\ ncalls < MaxForwards
    /\ ncalls' = ncalls + 1
    /\ proxyEnter(p, s)

\* updateRequestMetrics, lines 469-473: lock, count the request
urmTotal(p) ==
    /\ pc[p] = "urm_total"
    /\ metricsMu = 0
    /\ metricsMu' = p
    /\ metrics' = [metrics EXCEPT !.TotalRequests = @ + 1]
    /\ pc' = [pc EXCEPT ![p] = "urm_class"]
    /\ UNCHANGED <<rlState, ncalls, started, services, streams, callVars>>
    /\ snap' = NoSnap

\* an update that counts a failure as one more request
urmCounterTotal(success) == IF success THEN "SuccessRequests" ELSE "TotalRequests"

\* the counter that updateRequestMetrics adds one to
urmCounter(success) == IF success THEN "SuccessRequests" ELSE "ErrorRequests"

\* updateRequestMetrics, lines 474-483: count the outcome, then the request
\* of the service
urmClass(p) ==
    /\ pc[p] = "urm_class"
    /\ metrics' =
          LET g == [metrics EXCEPT ![urmCounter(urm[p].success)] = @ + 1]
          IN IF svc[p] \in DOMAIN metrics.ServiceMetrics
             THEN [g EXCEPT !.ServiceMetrics[svc[p]].TotalRequests = @ + 1,
                            !.ServiceMetrics[svc[p]].LastRequest = now]
             ELSE g
    /\ trace' = [trace EXCEPT ![p] =
                    IF urm[p].success THEN [@ EXCEPT !.succ = @ + 1]
                                      ELSE [@ EXCEPT !.err = @ + 1]]
    /\ pc' = [pc EXCEPT ![p] = "urm_svc_class"]
    /\ UNCHANGED <<rlState, ncalls, started, services, metricsMu, streams,
                   svc, urm, resp, made, okDone>>
    /\ snap' = NoSnap

\* updateRequestMetrics, lines 484-489: count the outcome of the service,
\* unlock, return to the caller
urmServiceClass(p) ==
    /\ pc[p] = "urm_svc_class"
    /\ metrics' = IF svc[p] \in DOMAIN metrics.ServiceMetrics
                   THEN [metrics EXCEPT
                           !.ServiceMetrics[svc[p]][urmCounter(urm[p].success)] = @ + 1]
                   ELSE metrics
    /\ metricsMu' = 0
    /\ pc' = [pc EXCEPT ![p] = urm[p].ret]
    /\ urm' = [urm EXCEPT ![p] = NoUrm]
    /\ UNCHANGED <<rlState, ncalls, started, services, streams,
                   svc, resp, trace, made, okDone>>
    /\ snap' = NoSnap

updateRequestMetrics(p) ==
    urmTotal(p) \/ urmClass(p) \/ urmServiceClass(p)

\* the moving average after one more sample, n being the request count
Average(avg, n, latencyMs) ==
    IF n = 1 THEN Rat(latencyMs, 1)
    ELSE Rat(avg.num * (n - 1) + latencyMs * avg.den, avg.den * n)

\* GatewayMetrics after updateLatencyMetrics(service, duration)
LatencyUpdate(m, s, d) ==
    LET g == [m EXCEPT !.AverageLatency = Average(@, m.TotalRequests, d)]
    IN IF s \in DOMAIN m.ServiceMetrics
       THEN [g EXCEPT !.ServiceMetrics[s].AverageLatency =
                         Average(@, m.ServiceMetrics[s].TotalRequests, d)]
       ELSE g

\* updateLatencyMetrics, lines 492-513, under the metrics lock
updateLatencyMetrics(p) ==
    /\ pc[p] = "latency"
    /\ metricsMu = 0
    /\ metrics' = LatencyUpdate(metrics, svc[p], resp[p].duration)
    /\ trace' = [trace EXCEPT ![p].lat = @ + 1]
    /\ pc' = [pc EXCEPT ![p] = "pr_metrics"]
    /\ UNCHANGED <<rlState, ncalls, started, services, metricsMu, streams,
                   svc, urm, resp, made, okDone>>
    /\ snap' = NoSnap

\* logRequest, lines 100-108 and 515-523: one event on logs-stream
logRequest(p) ==
    /\ pc[p] = "pr_log"
    /\ streams' = [streams EXCEPT !.logs = @ + 1]
    /\ trace' = [trace EXCEPT ![p].logs = @ + 1]
    /\ pc' = [pc EXCEPT ![p] = "pr_lookup"]
    /\ UNCHANGED <<rlState, ncalls, started, services, metrics, metricsMu,
                   svc, urm, resp, made, okDone>>
    /\ snap' = NoSnap

\* the call records an error outcome and continues at ret
Fail(p, e, ret) ==
    /\ resp' = [resp EXCEPT ![p].err = e]
    /\ urm' = [urm EXCEPT ![p] = [success |-> FALSE, ret |-> ret]]
    /\ pc' = [pc EXCEPT ![p] = "urm_total"]

\* a lookup that forwards whether or not the service is in the table
proxyLookupAny(p) ==
    /\ pc[p] = "pr_lookup"
    /\ pc' = [pc EXCEPT ![p] = "pr_body"]
    /\ UNCHANGED <<rlState, ncalls, gpVars, callVars>>
    /\ snap' = NoSnap

\* ProxyRequest, lines 111-118: the service is looked up in the table
proxyLookup(p) ==
    /\ pc[p] = "pr_lookup"
    /\ IF svc[p] \in services
       THEN pc' = [pc EXCEPT ![p] = "pr_body"] /\ UNCHANGED <<resp, urm>>
       ELSE Fail(p, "ServiceNotFound", "returned")
    /\ UNCHANGED <<rlState, ncalls, gpVars, svc, trace, made, okDone>>
    /\ snap' = NoSnap

\* ProxyRequest, lines 121-129: the body is read whole
proxyReadBody(p) ==
    /\ pc[p] = "pr_body"
    /\ \/ pc' = [pc EXCEPT ![p] = "pr_build"] /\ UNCHANGED <<resp, urm>>
       \/ Fail(p, "BodyReadError", "returned")
    /\ UNCHANGED <<rlState, ncalls, gpVars, svc, trace, made, okDone>>
    /\ snap' = NoSnap

\* ProxyRequest, lines 132-148: the outbound request is built
proxyBuild(p) ==
    /\ pc[p] = "pr_build"
    /\ \/ pc' = [pc EXCEPT ![p] = "pr_do"] /\ UNCHANGED <<resp, urm>>
       \/ Fail(p, "RequestBuildError", "returned")
    /\ UNCHANGED <<rlState, ncalls, gpVars, svc, trace, made, okDone>>
    /\ snap' = NoSnap

\* an upstream call whose failure is returned without being recorded
proxyDoUnrecorded(p) ==
    /\ pc[p] = "pr_do"
    /\ trace' = [trace EXCEPT ![p].http = @ + 1]
    /\ \E d \in Durations :
          \/ \E e \in {"UpstreamTimeout", "UpstreamUnreachable"} :
                /\ resp' = [resp EXCEPT ![p] = [err |-> e, status |-> NoCode, duration |-> d]]
                /\ pc' = [pc EXCEPT ![p] = "returned"]
          \/ \E code \in Statuses :
                /\ resp' = [resp EXCEPT ![p] = [err |-> NoErr, status |-> code, duration |-> d]]
                /\ pc' = [pc EXCEPT ![p] = "pr_read"]
    /\ UNCHANGED <<rlState, ncalls, gpVars, svc, urm, made, okDone>>
    /\ snap' = NoSnap

\* ProxyRequest, lines 151-165: the upstream call answers, times out or
\* fails in the transport
proxyDo(p) ==
    /\ pc[p] = "pr_do"
    /\ trace' = [trace EXCEPT ![p].http = @ + 1]
    /\ \E d \in Durations :
          \/ \E e \in {"UpstreamTimeout", "UpstreamUnreachable"} :
                /\ resp' = [resp EXCEPT ![p] = [err |-> e, status |-> NoCode, duration |-> d]]
                /\ urm' = [urm EXCEPT ![p] = [success |-> FALSE, ret |-> "latency"]]
                /\ pc' = [pc EXCEPT ![p] = "urm_total"]
          \/ \E code \in Statuses :
                /\ resp' = [resp EXCEPT ![p] = [err |-> NoErr, status |-> code, duration |-> d]]
                /\ pc' = [pc EXCEPT ![p] = "pr_read"]
                /\ UNCHANGED urm
    /\ UNCHANGED <<rlState, ncalls, gpVars, svc, made, okDone>>
    /\ snap' = NoSnap

\* success := resp.StatusCode >= 200 && resp.StatusCode < 400
Success(code) == code >= 200 /\ code < 400

\* ProxyRequest, lines 169-179: the response body is read and the outcome
\* classified by its status code
proxyReadResponse(p) ==
    /\ pc[p] = "pr_read"
    /\ \/ Fail(p, "ResponseReadError", "returned")
       \/ IF Success(resp[p].status)
          THEN pc' = [pc EXCEPT ![p] = "latency"] /\ UNCHANGED <<resp, urm>>
          ELSE /\ urm' = [urm EXCEPT ![p] = [success |-> FALSE, ret |-> "latency"]]
               /\ pc' = [pc EXCEPT ![p] = "urm_total"]
               /\ UNCHANGED resp
    /\ UNCHANGED <<rlState, ncalls, gpVars, svc, trace, made, okDone>>
    /\ snap' = NoSnap

\* logMetrics, lines 161-163, 183-186 and 525-541: one event on
\* metrics-stream
logMetrics(p) ==
    /\ pc[p] = "pr_metrics"
    /\ streams' = [streams EXCEPT !.metrics = @ + 1]
    /\ trace' = [trace EXCEPT ![p].events = @ + 1]
    /\ pc' = [pc EXCEPT ![p] = "returned"]
    /\ UNCHANGED <<rlState, ncalls, started, services, metrics, metricsMu,
                   svc, urm, resp, made, okDone>>
    /\ snap' = NoSnap

\* ProxyRequest has returned and the caller has taken the result; the task
\* is free for the next call
Done(p) ==
    /\ pc[p] = "returned"
    /\ pc' = [pc EXCEPT ![p] = "idle"]
    /\ svc' = [svc EXCEPT ![p] = ""]
    /\ resp' = [resp EXCEPT ![p] = NoResp]
    /\ trace' = [trace EXCEPT ![p] = NoTrace]
    /\ okDone' = [okDone EXCEPT ![svc[p]] =
                     IF resp[p].err = NoErr /\ Success(resp[p].status)
                     THEN @ + 1 ELSE @]
    /\ UNCHANGED <<rlState, ncalls, gpVars, urm, made>>
    /\ snap' = NoSnap

\* a copy that takes the error count of a service for its success count
MetricsCopySwapped(m) ==
    [TotalRequests |-> m.TotalRequests,
     SuccessRequests |-> m.SuccessRequests,
     ErrorRequests |-> m.ErrorRequests,
     AverageLatency |-> m.AverageLatency,
     ServiceMetrics |->
        [s \in DOMAIN m.ServiceMetrics |->
            [TotalRequests |-> m.ServiceMetrics[s].TotalRequests,
             SuccessRequests |-> m.ServiceMetrics[s].ErrorRequests,
             ErrorRequests |-> m.ServiceMetrics[s].ErrorRequests,
             AverageLatency |-> m.ServiceMetrics[s].AverageLatency,
             LastRequest |-> m.ServiceMetrics[s].LastRequest]]]

\* GetMetrics, lines 313-332: the copy, field by field and entry by entry
MetricsCopy(m) ==
    [TotalRequests |-> m.TotalRequests,
     SuccessRequests |-> m.SuccessRequests,
     ErrorRequests |-> m.ErrorRequests,
     AverageLatency |-> m.AverageLatency,
     ServiceMetrics |->
        [s \in DOMAIN m.ServiceMetrics |->
            [TotalRequests |-> m.ServiceMetrics[s].TotalRequests,
             SuccessRequests |-> m.ServiceMetrics[s].SuccessRequests,
             ErrorRequests |-> m.ServiceMetrics[s].ErrorRequests,
             AverageLatency |-> m.ServiceMetrics[s].AverageLatency,
             LastRequest |-> m.ServiceMetrics[s].LastRequest]]]

\* GetMetrics, lines 308-341: a copy of the metrics under the read lock
GetMetrics ==
    /\ metricsMu = 0
    /\ snap' = [taken |-> TRUE, metrics |-> MetricsCopy(metrics),
                made |-> made, okDone |-> okDone]
    /\ UNCHANGED <<rlVars, gpVars, callVars, req, extVars>>

\* one call of ProxyRequest, from the lookup to the metrics event
Forward(p) ==
    \/ updateRequestMetrics(p) \/ logRequest(p) \/ proxyLookup(p)
    \/ proxyReadBody(p) \/ proxyBuild(p) \/ proxyDo(p)
    \/ proxyReadResponse(p) \/ updateLatencyMetrics(p) \/ logMetrics(p)

InitProxy == InitRateLimiter /\ rpm = 1 /\ burst = 1 /\ InitProcessor /\ IdleExt

\* concurrent callers of ProxyRequest
NextProxy ==
    \/ Start
    \/ \E p \in Procs, s \in ServiceNames : ProxyRequest(p, s)
    \/ \E p \in Procs : Forward(p)
    \/ \E p \in Procs : Done(p)
    \/ GetMetrics

SpecProxy == InitProxy /\ [][NextProxy]_vars

\* ------------------------------------------------------------------------
\* Specifications of the rate limiter
\* ------------------------------------------------------------------------

Tick == Advance(MaxTicks)

AllowCall(p, c) == Call(p, c, MaxCalls)

\* concurrent callers of Allow
NextRL ==
    \/ Tick
    \/ \E p \in Procs, c \in ClientIDs : AllowCall(p, c)
    \/ \E p \in Procs : Allow(p)
    \/ \E p \in Procs : AllowReturn(p)
    \/ cleanup

InitRL == InitRateLimiter /\ InitProcessor /\ IdleExt

SpecRL == InitRL /\ [][NextRL]_vars

\* one caller at a time: a call starts only when no other call is in flight
SeqTick == Advance(MaxSeqTicks)

SeqAllowCall(p, c) ==
    /\ \A q \in Procs : pc[q] = "idle"
    /\ Call(p, c, MaxSeqCalls)

NextSeq ==
    \/ SeqTick
    \/ \E p \in Procs, c \in ClientIDs : SeqAllowCall(p, c)
    \/ \E p \in Procs : Allow(p)
    \/ \E p \in Procs : AllowReturn(p)
    \/ cleanup

SpecSeq == InitRL /\ [][NextSeq]_vars

\* concurrent callers and the sweep under fair scheduling: each task calls
\* Allow once and, the tasks being interchangeable, they start in the order
\* of their ids; the clock jumps once, past the retention time, so that the
\* sweep that follows evicts the records made before the jump
FairTick ==
    /\ nticks = 0
    /\ Advance(MaxTicks)
    /\ now' = now + 2 * IdleRetention

FairCall(p, c) == ncalls = p - 1 /\ Call(p, c, MaxProcs)

InitFair == InitRateLimiter /\ rpm = 1 /\ burst = 1 /\ InitProcessor /\ IdleExt

NextFair ==
    \/ FairTick
    \/ \E p \in Procs, c \in ClientIDs : FairCall(p, c)
    \/ \E p \in Procs : Allow(p)
    \/ \E p \in Procs : AllowReturn(p)
    \/ cleanup

\* the Go scheduler runs every runnable goroutine again and again, and a
\* goroutine waiting for a sync.Mutex or sync.RWMutex gets it once it is
\* released
RLFairness ==
    /\ \A p \in Procs : WF_vars(Allow(p)) /\ WF_vars(AllowReturn(p))
    /\ WF_vars(cleanup)

SpecFair == InitFair /\ [][NextFair]_vars /\ RLFairness

\* ------------------------------------------------------------------------
\* Middleware chain and handler (server/server.go, middleware, handlers)
\* ------------------------------------------------------------------------

StatusTooManyRequests == 429
StatusUnauthorized == 401
StatusBadGateway == 502

\* a request of client c enters the chain; the RateLimit middleware calls Allow
Request(p, c) == Call(p, c, MaxRequests)

\* a RateLimit that answers 429 and still passes the request on
RateLimitNoReturn(p) ==
    /\ pc[p] = "allow_ret"
    /\ req' = [req EXCEPT ![p] =
                  IF ok[p] THEN @
                  ELSE [@ EXCEPT !.limited = TRUE, !.code = StatusTooManyRequests]]
    /\ pc' = [pc EXCEPT ![p] = "auth"]
    /\ client' = [client EXCEPT ![p] = NoAddr]
    /\ ok' = [ok EXCEPT ![p] = FALSE]
    /\ limiters' = Collect(limiters, clients, client')
    /\ UNCHANGED <<extVars, clockVars, cfgVars, clients, rlmu, cid, histVars, sweepVars,
                   gpVars, callVars, snap>>

\* RateLimit, lines 45-53: a denied request is answered 429, an admitted one
\* is passed to the next handler
RateLimit(p) ==
    /\ pc[p] = "allow_ret"
    /\ req' = [req EXCEPT ![p] =
                  IF ok[p] THEN @
                  ELSE [@ EXCEPT !.limited = TRUE, !.code = StatusTooManyRequests]]
    /\ pc' = [pc EXCEPT ![p] = IF ok[p] THEN "auth" ELSE "responded"]
    /\ client' = [client EXCEPT ![p] = NoAddr]
    /\ ok' = [ok EXCEPT ![p] = FALSE]
    /\ limiters' = Collect(limiters, clients, client')
    /\ UNCHANGED <<extVars, clockVars, cfgVars, clients, rlmu, cid, histVars, sweepVars,
                   gpVars, callVars, snap>>

\* Auth, lines 215-226: the Authorization header must be "Bearer <token>"
authHeader(p) ==
    /\ pc[p] = "auth"
    /\ \/ /\ req' = [req EXCEPT ![p].code = StatusUnauthorized]
          /\ pc' = [pc EXCEPT ![p] = "responded"]
       \/ /\ pc' = [pc EXCEPT ![p] = "auth_publish"]
          /\ UNCHANGED req
    /\ UNCHANGED <<extVars, clockVars, cfgVars, clients, limiters, rlmu, cid, client,
                   ok, histVars, sweepVars, gpVars, callVars, snap>>

\* validateTokenViaRedis, lines 271-295: the validation request is appended
\* to auth-requests, or the append fails
authPublish(p) ==
    /\ pc[p] = "auth_publish"
    /\ \/ /\ streams' = [streams EXCEPT !.auth = @ + 1]
          /\ req' = [req EXCEPT ![p].authSent = @ + 1]
          /\ pc' = [pc EXCEPT ![p] = "auth_read"]
       \/ /\ req' = [req EXCEPT ![p].code = StatusUnauthorized]
          /\ pc' = [pc EXCEPT ![p] = "responded"]
          /\ UNCHANGED streams
    /\ UNCHANGED <<extVars, clockVars, cfgVars, clients, limiters, rlmu, cid, client,
                   ok, histVars, sweepVars, started, services, metrics,
                   metricsMu, callVars, snap>>

\* validateTokenViaRedis, lines 306-348, and Auth, lines 231-245: the read
\* of auth-responses yields the user, or the request is answered 401
authRead(p) ==
    /\ pc[p] = "auth_read"
    /\ \/ /\ pc' = [pc EXCEPT ![p] = "handler"]
          /\ UNCHANGED req
       \/ /\ req' = [req EXCEPT ![p].code = StatusUnauthorized]
          /\ pc' = [pc EXCEPT ![p] = "responded"]
    /\ UNCHANGED <<extVars, clockVars, cfgVars, clients, limiters, rlmu, cid, client,
                   ok, histVars, sweepVars, gpVars, callVars, snap>>

Auth(p) == authHeader(p) \/ authPublish(p) \/ authRead(p)

\* GatewayHandler.Proxy, lines 24-50: the handler calls ProxyRequest
Proxy(p, s) ==
    /\ pc[p] = "handler"
    /\ proxyEnter(p, s)
    /\ UNCHANGED ncalls

\* GatewayHandler.Proxy, lines 51-70: the error is answered 502, a response
\* with the status of the backend
ProxyRespond(p) ==
    /\ pc[p] = "returned"
    /\ req' = [req EXCEPT ![p].code =
                  IF resp[p].err # NoErr THEN StatusBadGateway
                  ELSE resp[p].status]
    /\ okDone' = [okDone EXCEPT ![svc[p]] =
                     IF resp[p].err = NoErr /\ Success(resp[p].status)
                     THEN @ + 1 ELSE @]
    /\ pc' = [pc EXCEPT ![p] = "responded"]
    /\ UNCHANGED <<extVars, clockVars, cfgVars, clients, limiters, rlmu, cid, client,
                   ok, histVars, sweepVars, gpVars, svc, urm, resp, trace,
                   made, snap>>

\* Logger, logger.go lines 22-43: once the chain has answered, the request
\* is logged on logs-stream and the task is free for the next request
Logger(p) ==
    /\ pc[p] = "responded"
    /\ streams' = [streams EXCEPT !.logs = @ + 1]
    /\ pc' = [pc EXCEPT ![p] = "idle"]
    /\ cid' = [cid EXCEPT ![p] = NoClient]
    /\ svc' = [svc EXCEPT ![p] = ""]
    /\ resp' = [resp EXCEPT ![p] = NoResp]
    /\ trace' = [trace EXCEPT ![p] = NoTrace]
    /\ req' = [req EXCEPT ![p] = NoReq]
    /\ UNCHANGED <<extVars, clockVars, cfgVars, clients, limiters, rlmu, client, ok,
                   histVars, sweepVars, started, services, metrics, metricsMu,
                   urm, made, okDone, snap>>

\* ProxyRequest in the server: Server.Start (server.go lines 45-51) never
\* calls GatewayProcessor.Start, so the service table of the server's
\* processor stays empty and every call returns at line 117
ProxyNotFound(p) ==
    updateRequestMetrics(p) \/ logRequest(p) \/ proxyLookup(p)

\* the server within one instant of the clock: concurrent inbound requests
\* to the protected proxy route
NextGateway ==
    \/ \E p \in Procs, c \in ClientIDs : Request(p, c)
    \/ \E p \in Procs : Allow(p)
    \/ \E p \in Procs : RateLimit(p)
    \/ \E p \in Procs : Auth(p)
    \/ \E p \in Procs, s \in ServiceNames : Proxy(p, s)
    \/ \E p \in Procs : ProxyNotFound(p)
    \/ \E p \in Procs : ProxyRespond(p)
    \/ \E p \in Procs : Logger(p)

InitGateway == InitRL /\ rpm = 1

SpecGateway == InitGateway /\ [][NextGateway]_vars

\* ------------------------------------------------------------------------
\* Health checker (processors/gateway_processor.go)
\* ------------------------------------------------------------------------

StatusOK == 200

\* what a health probe leaves alone, apart from the event streams
hcFrame == <<rlVars, started, services, metrics, metricsMu, callVars, snap,
             req, hdrVars, loopVars, kept, valVars>>

\* the map m with the entry of service s set to r
SetEntry(m, s, r) == [x \in DOMAIN m \cup {s} |-> IF x = s THEN r ELSE m[x]]

\* a result that takes every status below 300 for healthy
ResultOfAny2xx(service, got, id) ==
    [Service |-> service,
     Status |-> IF got.err = NoErr /\ got.status < 300
                THEN "healthy" ELSE "unhealthy",
     Error |-> IF got.err # NoErr THEN got.err
               ELSE IF got.status < 300 THEN ""
               ELSE "status code: " \o ToString(got.status),
     Timestamp |-> id,
     id |-> id]

\* performHealthCheck, lines 243-261: the result of a probe that got
\* the error or the status code of got; the number of the probe is the
\* identity of the object and stands for its start time
ResultOf(service, got, id) ==
    [Service |-> service,
     Status |-> IF got.err = NoErr /\ got.status = StatusOK
                THEN "healthy" ELSE "unhealthy",
     Error |-> IF got.err # NoErr THEN got.err
               ELSE IF got.status = StatusOK THEN ""
               ELSE "status code: " \o ToString(got.status),
     Timestamp |-> id,
     id |-> id]

\* CheckServiceHealth, lines 213-223: the service is looked up under the
\* read lock, then probed
CheckServiceHealth(t, s) ==
    /\ prb[t].pc = "idle"
    /\ nprobes < MaxProbes
    /\ gpMu = "free"
    /\ nprobes' = nprobes + 1
    /\ prb' = [prb EXCEPT ![t] =
                  IF s \in services
                  THEN [NoProbe EXCEPT !.pc = "new", !.service = s]
                  ELSE [NoProbe EXCEPT !.pc = "ret", !.service = s,
                                       !.err = "ServiceNotFound"]]
    /\ UNCHANGED <<hcFrame, streams, gpMu, healthStats, mHealth, nobj, lastStore>>
    /\ status' = NoStatus

\* performHealthCheck, lines 226-237: the probe request is built
hcNew(t) ==
    /\ prb[t].pc = "new"
    /\ \/ prb' = [prb EXCEPT ![t].pc = "do"]
       \/ prb' = [prb EXCEPT ![t].pc = "ret", ![t].err = "RequestBuildError"]
    /\ UNCHANGED <<hcFrame, streams, gpMu, healthStats, mHealth, nobj, nprobes, lastStore>>
    /\ status' = NoStatus

\* what httpClient.Do can give a probe: an error, or a response with
\* a status code
ProbeOutcomes ==
    [err : ProbeErrors, status : {NoCode}] \cup [err : {NoErr}, status : ProbeStatuses]

\* the outcomes drawn for the probes of the periodic check
LoopOutcomes ==
    {[err |-> NoErr, status |-> StatusOK],
     [err |-> "connection refused", status |-> NoCode]}

\* performHealthCheck, lines 239-261: the probe is sent and its result
\* object made
hcDo(t, outcomes) ==
    /\ prb[t].pc = "do"
    /\ \E got \in outcomes :
          prb' = [prb EXCEPT ![t].pc = "store", ![t].got = got,
                             ![t].result = ResultOf(prb[t].service, got, nobj + 1)]
    /\ nobj' = nobj + 1
    /\ UNCHANGED <<hcFrame, streams, gpMu, healthStats, mHealth, nprobes, lastStore>>
    /\ status' = NoStatus

\* performHealthCheck, lines 264-265: lock, store in the health table
hcStoreHealth(t) ==
    /\ prb[t].pc = "store"
    /\ gpMu = "free"
    /\ gpMu' = t
    /\ healthStats' = SetEntry(healthStats, prb[t].service, prb[t].result)
    /\ lastStore' = SetEntry(lastStore, prb[t].service, prb[t].result.Timestamp)
    /\ prb' = [prb EXCEPT ![t].pc = "store_metrics"]
    /\ UNCHANGED <<hcFrame, streams, mHealth, nobj, nprobes>>
    /\ status' = NoStatus

\* performHealthCheck, lines 266-267: store in the metrics, unlock
hcStoreMetrics(t) ==
    /\ prb[t].pc = "store_metrics"
    /\ mHealth' = SetEntry(mHealth, prb[t].service, prb[t].result)
    /\ gpMu' = "free"
    /\ prb' = [prb EXCEPT ![t].pc = "log"]
    /\ UNCHANGED <<hcFrame, streams, healthStats, nobj, nprobes, lastStore>>
    /\ status' = NoStatus

\* performHealthCheck, lines 269-280: the health_check event is published
\* and the result returned
hcLog(t) ==
    /\ prb[t].pc = "log"
    /\ streams' = [streams EXCEPT !.metrics = @ + 1]
    /\ prb' = [prb EXCEPT ![t].pc = "ret"]
    /\ UNCHANGED <<hcFrame, gpMu, healthStats, mHealth, nobj, nprobes, lastStore>>
    /\ status' = NoStatus

performHealthCheckOf(t, outcomes) ==
    \/ hcNew(t)
    \/ hcDo(t, outcomes)
    \/ hcStoreHealth(t)
    \/ hcStoreMetrics(t)
    \/ hcLog(t)

performHealthCheck(t) == performHealthCheckOf(t, ProbeOutcomes)

\* the handler has answered with what CheckServiceHealth returned
CheckReturn(t) ==
    /\ prb[t].pc = "ret"
    /\ prb' = [prb EXCEPT ![t] = NoProbe]
    /\ UNCHANGED <<hcFrame, streams, gpMu, healthStats, mHealth, nobj, nprobes,
                   lastStore>>
    /\ status' = NoStatus

\* a copy of a HealthCheckResult: a new object with the same fields
CopyResult(r) == [r EXCEPT !.id = 0]

\* a status map that leaves out the services without a stored result
ServicesStatusStoredOnly(hs, svcs) == [s \in DOMAIN hs |-> CopyResult(hs[s])]

\* GetServicesStatus, lines 287-303: a copy of every stored result, and
\* status unknown for the services of the table that have none
ServicesStatus(hs, svcs) ==
    [s \in DOMAIN hs \cup svcs |->
        IF s \in DOMAIN hs THEN CopyResult(hs[s])
        ELSE [NoResult EXCEPT !.Service = s, !.Status = "unknown"]]

\* GetServicesStatus, lines 283-306, under the read lock
GetServicesStatus ==
    /\ gpMu = "free"
    /\ status' = [taken |-> TRUE, result |-> ServicesStatus(healthStats, services),
                  services |-> services, lastStore |-> lastStore]
    /\ UNCHANGED <<hcFrame, streams, gpMu, healthStats, mHealth, nobj, nprobes,
                   prb, lastStore>>

InitHealth ==
    InitRateLimiter /\ rpm = 1 /\ burst = 1 /\ InitProcessor /\ IdleExt

NextHealth ==
    \/ Start
    \/ \E t \in Callers, s \in ServiceNames \cup Registry : CheckServiceHealth(t, s)
    \/ \E t \in ProbeTasks : performHealthCheck(t)
    \/ \E t \in Callers : CheckReturn(t)
    \/ GetServicesStatus

SpecHealth == InitHealth /\ [][NextHealth]_vars

\* ------------------------------------------------------------------------
\* Background loops and shutdown (processors/gateway_processor.go,
\* server/server.go, cmd/gateway/main.go)
\* ------------------------------------------------------------------------

\* what the background loops leave alone, apart from the event streams
loopFrame == <<rlVars, started, services, metrics, metricsMu, callVars, snap,
               req, hdrVars, kept, valVars>>

\* Server.Start, lines 47-48: both background goroutines are launched
ServerStart ==
    /\ alive
    /\ hlpc = "off"
    /\ mcpc = "off"
    /\ hlpc' = "check"
    /\ mcpc' = "announce"
    /\ UNCHANGED <<loopFrame, streams, hcVars, alive, stopChan, hlServices,
                   hlRounds, mcRounds, mcCopy>>

\* checkAllServices, lines 393-406: the service table is copied under the
\* read lock and one probe goroutine is started per service
hlSpawn ==
    /\ alive
    /\ hlpc = "check"
    /\ gpMu = "free"
    /\ hlServices' = services
    /\ hlRounds' = hlRounds + 1
    /\ prb' = [t \in ProbeTasks |->
                  IF t \in services
                  THEN [NoProbe EXCEPT !.pc = "new", !.service = t]
                  ELSE prb[t]]
    /\ hlpc' = "wait"
    /\ status' = NoStatus
    /\ UNCHANGED <<loopFrame, streams, gpMu, healthStats, mHealth, nobj, nprobes,
                   lastStore, alive, stopChan, mcpc, mcRounds, mcCopy>>

\* checkAllServices, line 408: wg.Wait returns once every probe of the tick
\* has returned
hlWait ==
    /\ alive
    /\ hlpc = "wait"
    /\ \A s \in hlServices : prb[s].pc = "ret"
    /\ prb' = [t \in ProbeTasks |-> IF t \in hlServices THEN NoProbe ELSE prb[t]]
    /\ hlpc' = "summary"
    /\ status' = NoStatus
    /\ UNCHANGED <<loopFrame, streams, gpMu, healthStats, mHealth, nobj, nprobes,
                   lastStore, alive, stopChan, hlServices, hlRounds, mcpc, mcRounds, mcCopy>>

\* checkAllServices, lines 411-425: the healthy services are counted under
\* the read lock and the summary is logged; the first call returns to line
\* 350, the later ones to the select
hlSummary ==
    /\ alive
    /\ hlpc = "summary"
    /\ gpMu = "free"
    /\ streams' = [streams EXCEPT !.logs = @ + 1]
    /\ hlpc' = IF hlRounds = 1 THEN "announce" ELSE "select"
    /\ hlServices' = {}
    /\ UNCHANGED <<loopFrame, hcVars, alive, stopChan, hlRounds, mcpc, mcRounds, mcCopy>>

\* StartHealthChecker, lines 350-352
hlAnnounce ==
    /\ alive
    /\ hlpc = "announce"
    /\ streams' = [streams EXCEPT !.logs = @ + 1]
    /\ hlpc' = "select"
    /\ UNCHANGED <<loopFrame, hcVars, alive, stopChan, hlServices, hlRounds,
                   mcpc, mcRounds, mcCopy>>

\* StartHealthChecker, lines 356-357: the ticker has fired
hlTick ==
    /\ alive
    /\ hlpc = "select"
    /\ hlRounds < MaxProbes
    /\ hlpc' = "check"
    /\ UNCHANGED <<loopFrame, streams, hcVars, alive, stopChan, hlServices,
                   hlRounds, mcpc, mcRounds, mcCopy>>

\* StartHealthChecker, lines 358-360: the stop channel is closed
hlStop ==
    /\ alive
    /\ hlpc = "select"
    /\ stopChan = "closed"
    /\ streams' = [streams EXCEPT !.logs = @ + 1]
    /\ hlpc' = "stopped"
    /\ UNCHANGED <<loopFrame, hcVars, alive, stopChan, hlServices, hlRounds,
                   mcpc, mcRounds, mcCopy>>

StartHealthChecker ==
    hlSpawn \/ hlWait \/ hlSummary \/ hlAnnounce \/ hlTick \/ hlStop

\* StartMetricsCollector, lines 369-371
mcAnnounce ==
    /\ alive
    /\ mcpc = "announce"
    /\ streams' = [streams EXCEPT !.logs = @ + 1]
    /\ mcpc' = "select"
    /\ UNCHANGED <<loopFrame, hcVars, alive, stopChan, hlpc, hlServices,
                   hlRounds, mcRounds, mcCopy>>

\* the services whose metrics GetMetrics copies, lines 323-337
CopiedServicesNone(m) == {}

CopiedServices(m) == DOMAIN m.ServiceMetrics

\* StartMetricsCollector, lines 375-376, collectAndPublishMetrics, line 430,
\* and GetMetrics, line 309: the ticker has fired and the metrics read lock
\* is taken
mcTick ==
    /\ alive
    /\ mcpc = "select"
    /\ mcRounds < MaxProbes
    /\ metricsMu = 0
    /\ metricsMu' = Collector
    /\ mcRounds' = mcRounds + 1
    /\ mcpc' = "collect"
    /\ UNCHANGED <<rlVars, started, services, metrics, callVars, snap, req,
                   hdrVars, kept, valVars, streams, hcVars, alive, stopChan,
                   hlpc, hlServices, hlRounds, mcCopy>>

\* a GetMetrics whose deferred unlock is left out
mcCopiedLocked ==
    /\ alive
    /\ mcpc = "collect"
    /\ mcCopy' = [services |-> CopiedServices(metrics),
                  todo |-> CopiedServices(metrics), sent |-> 0]
    /\ mcpc' = "count"
    /\ UNCHANGED <<rlVars, started, services, metrics, metricsMu, callVars,
                   snap, req, hdrVars, kept, valVars, streams, hcVars, alive,
                   stopChan, hlpc, hlServices, hlRounds, mcRounds>>

\* GetMetrics, lines 310-340: the copy is made and the deferred RUnlock
\* runs as GetMetrics returns
mcCopied ==
    /\ alive
    /\ mcpc = "collect"
    /\ metricsMu' = 0
    /\ mcCopy' = [services |-> CopiedServices(metrics),
                  todo |-> CopiedServices(metrics), sent |-> 0]
    /\ mcpc' = "count"
    /\ UNCHANGED <<rlVars, started, services, metrics, callVars, snap, req,
                   hdrVars, kept, valVars, streams, hcVars, alive, stopChan,
                   hlpc, hlServices, hlRounds, mcRounds>>

\* countHealthyServices, line 456, called at line 440
mcCount ==
    /\ alive
    /\ mcpc = "count"
    /\ gpMu = "free"
    /\ gpMu' = "collector"
    /\ mcpc' = "counting"
    /\ UNCHANGED <<loopFrame, streams, healthStats, mHealth, prb, status, nobj,
                   nprobes, lastStore, alive, stopChan, hlpc, hlServices,
                   hlRounds, mcRounds, mcCopy>>

\* countHealthyServices, lines 459-465 and the deferred RUnlock of line 457
mcCounted ==
    /\ alive
    /\ mcpc = "counting"
    /\ gpMu' = "free"
    /\ mcpc' = "summary"
    /\ UNCHANGED <<loopFrame, streams, healthStats, mHealth, prb, status, nobj,
                   nprobes, lastStore, alive, stopChan, hlpc, hlServices,
                   hlRounds, mcRounds, mcCopy>>

\* collectAndPublishMetrics, lines 433-441: the gateway_summary event
mcSummary ==
    /\ alive
    /\ mcpc = "summary"
    /\ streams' = [streams EXCEPT !.metrics = @ + 1]
    /\ mcCopy' = [mcCopy EXCEPT !.sent = @ + 1]
    /\ mcpc' = IF mcCopy.todo = {} THEN "select" ELSE "services"
    /\ UNCHANGED <<loopFrame, hcVars, alive, stopChan, hlpc, hlServices,
                   hlRounds, mcRounds>>

\* collectAndPublishMetrics, lines 444-452: the service_summary event of one
\* service of the copy
mcService(s) ==
    /\ alive
    /\ mcpc = "services"
    /\ s \in mcCopy.todo
    /\ streams' = [streams EXCEPT !.metrics = @ + 1]
    /\ mcCopy' = [mcCopy EXCEPT !.todo = @ \ {s}, !.sent = @ + 1]
    /\ mcpc' = IF mcCopy.todo = {s} THEN "select" ELSE "services"
    /\ UNCHANGED <<loopFrame, hcVars, alive, stopChan, hlpc, hlServices,
                   hlRounds, mcRounds>>

\* collectAndPublishMetrics, lines 428-453
collectAndPublishMetrics ==
    \/ mcCopied
    \/ mcCount
    \/ mcCounted
    \/ mcSummary
    \/ \E s \in Registry : mcService(s)

\* StartMetricsCollector, lines 377-379: the stop channel is closed
mcStop ==
    /\ alive
    /\ mcpc = "select"
    /\ stopChan = "closed"
    /\ streams' = [streams EXCEPT !.logs = @ + 1]
    /\ mcpc' = "stopped"
    /\ UNCHANGED <<loopFrame, hcVars, alive, stopChan, hlpc, hlServices,
                   hlRounds, mcRounds, mcCopy>>

StartMetricsCollector ==
    mcAnnounce \/ mcTick \/ collectAndPublishMetrics \/ mcStop

\* Server.Shutdown, line 54, and Stop, lines 384-387: on SIGINT or SIGTERM
\* the stop is logged and the stop channel closed
Stop ==
    /\ alive
    /\ stopChan = "open"
    /\ streams' = [streams EXCEPT !.logs = @ + 1]
    /\ stopChan' = "closed"
    /\ UNCHANGED <<loopFrame, hcVars, alive, hlpc, hlServices, hlRounds, mcpc,
                   mcRounds, mcCopy>>

\* main, lines 35-37 and 50-55: Shutdown waits for no background goroutine;
\* once it has returned main returns, and ListenAndServe returning
\* ErrServerClosed ends the process through log.Fatalf
Exit ==
    /\ alive
    /\ stopChan = "closed"
    /\ alive' = FALSE
    /\ UNCHANGED <<loopFrame, streams, hcVars, stopChan, hlpc, hlServices,
                   hlRounds, mcpc, mcRounds, mcCopy>>

\* a probe of the running tick takes a step
hlProbe(s) == alive /\ performHealthCheckOf(s, LoopOutcomes)

InitLoops ==
    InitRateLimiter /\ rpm = 1 /\ burst = 1 /\ InitProcessor /\ IdleExt

NextLoops ==
    \/ hlpc = "off" /\ Start
    \/ ServerStart
    \/ StartHealthChecker
    \/ \E s \in Registry : hlProbe(s)
    \/ StartMetricsCollector
    \/ Stop
    \/ Exit

\* every goroutine of a running process is scheduled again and again, and
\* a select with several ready cases picks each of them sooner or later
LoopsFairness ==
    /\ WF_vars(ServerStart)
    /\ WF_vars(hlSpawn) /\ WF_vars(hlWait) /\ WF_vars(hlSummary)
    /\ WF_vars(hlAnnounce) /\ SF_vars(hlStop)
    /\ \A s \in Registry : WF_vars(hlProbe(s))
    /\ WF_vars(mcAnnounce) /\ WF_vars(collectAndPublishMetrics) /\ SF_vars(mcStop)

SpecLoops == InitLoops /\ [][NextLoops]_vars /\ LoopsFairness

\* ------------------------------------------------------------------------
\* The rate limiter of a process that is shut down (middleware/
\* rate_limiter.go, server/server.go, cmd/gateway/main.go)
\* ------------------------------------------------------------------------

\* Server.Shutdown, lines 54-55, has returned: the stop channel is closed
\* and httpServer.Shutdown has seen the last request in flight end
ShutdownCompleted ==
    stopChan = "closed" /\ \A p \in Procs : pc[p] = "idle"

\* a request is accepted while the listener is open
ServeCall(p, c) == alive /\ stopChan = "open" /\ SeqAllowCall(p, c)

\* the goroutines of the limiter run for as long as the process does:
\* cleanup, lines 107-120, has no case for a stop signal
ServeStep ==
    /\ alive
    /\ \/ SeqTick
       \/ \E p \in Procs : Allow(p)
       \/ \E p \in Procs : AllowReturn(p)
       \/ cleanup

InitShutdown ==
    InitRateLimiter /\ rpm = 1 /\ burst = 1 /\ InitProcessor /\ IdleExt

NextShutdown ==
    \/ \E p \in Procs, c \in ClientIDs : ServeCall(p, c)
    \/ ServeStep
    \/ Stop
    \/ Exit

SpecShutdown == InitShutdown /\ [][NextShutdown]_vars

\* ------------------------------------------------------------------------
\* A reader that keeps the value of GetMetrics
\* ------------------------------------------------------------------------

\* a pointer to an object made for the copy, which nothing else refers to
Own(v) == [ref |-> "own", val |-> v]

\* a copy whose per-service entries point to the live ServiceMetrics objects
GetMetricsValueShared(m, mh) ==
    [TotalRequests |-> MetricsCopy(m).TotalRequests,
     SuccessRequests |-> MetricsCopy(m).SuccessRequests,
     ErrorRequests |-> MetricsCopy(m).ErrorRequests,
     AverageLatency |-> MetricsCopy(m).AverageLatency,
     ServiceMetrics |-> [s \in DOMAIN m.ServiceMetrics |-> [ref |-> s]],
     HealthStats |-> [s \in DOMAIN mh |-> Own(CopyResult(mh[s]))]]

\* GetMetrics, lines 313-340: the object graph of the value returned. The
\* GatewayMetrics struct and its two maps are new; every ServiceMetrics is
\* a new object filled field by field (lines 325-331) and every
\* HealthCheckResult a new object holding a copy of the stored one (lines
\* 336-337)
GetMetricsValue(m, mh) ==
    [TotalRequests |-> MetricsCopy(m).TotalRequests,
     SuccessRequests |-> MetricsCopy(m).SuccessRequests,
     ErrorRequests |-> MetricsCopy(m).ErrorRequests,
     AverageLatency |-> MetricsCopy(m).AverageLatency,
     ServiceMetrics |->
        [s \in DOMAIN m.ServiceMetrics |-> Own(MetricsCopy(m).ServiceMetrics[s])],
     HealthStats |-> [s \in DOMAIN mh |-> Own(CopyResult(mh[s]))]]

\* what a reader finds behind a pointer of the value it holds: the object
\* made for the copy, or the live object of the service
DerefMetrics(e) ==
    IF e.ref = "own" THEN e.val ELSE metrics.ServiceMetrics[e.ref]

DerefHealth(e) ==
    IF e.ref = "own" THEN e.val ELSE CopyResult(mHealth[e.ref])

\* what a reader finds in the value v now
Seen(v) ==
    [TotalRequests |-> v.TotalRequests,
     SuccessRequests |-> v.SuccessRequests,
     ErrorRequests |-> v.ErrorRequests,
     AverageLatency |-> v.AverageLatency,
     ServiceMetrics |->
        [s \in DOMAIN v.ServiceMetrics |-> DerefMetrics(v.ServiceMetrics[s])],
     HealthStats |->
        [s \in DOMAIN v.HealthStats |-> DerefHealth(v.HealthStats[s])]]

\* the live metrics and health entries, as values
Live ==
    [TotalRequests |-> metrics.TotalRequests,
     SuccessRequests |-> metrics.SuccessRequests,
     ErrorRequests |-> metrics.ErrorRequests,
     AverageLatency |-> metrics.AverageLatency,
     ServiceMetrics |-> metrics.ServiceMetrics,
     HealthStats |-> [s \in DOMAIN mHealth |-> CopyResult(mHealth[s])]]

\* GetMetrics, lines 308-341, called by a reader that keeps the value
Snapshot ==
    /\ ~kept.taken
    /\ metricsMu = 0
    /\ kept' = [taken |-> TRUE,
                value |-> GetMetricsValue(metrics, mHealth),
                seen |-> Live]
    /\ UNCHANGED <<rlVars, nonRLVarsBase, hdrVars, hcVars, loopVars, valVars>>

\* the task whose calls update the metrics
Writer == 1

InitSnapshot ==
    InitRateLimiter /\ rpm = 1 /\ burst = 1 /\ InitProcessor /\ IdleExt

\* no probe is running
NoProbing == \A t \in ProbeTasks : prb[t].pc = "idle"

\* requests and probes, one at a time, go on while the reader holds its
\* value
NextSnapshot ==
    \/ Start
    \/ \E s \in ServiceNames : NoProbing /\ ProxyRequest(Writer, s)
    \/ Forward(Writer)
    \/ Done(Writer)
    \/ \E t \in Callers, s \in ServiceNames \cap Registry :
          pc[Writer] = "idle" /\ CheckServiceHealth(t, s)
    \/ \E t \in Callers : performHealthCheckOf(t, LoopOutcomes)
    \/ \E t \in Callers : CheckReturn(t)
    \/ Snapshot

SpecSnapshot == InitSnapshot /\ [][NextSnapshot]_vars

\* ------------------------------------------------------------------------
\* Token validation over Redis streams (middleware: validateTokenViaRedis)
\* ------------------------------------------------------------------------

ErrSend == "failed to send auth request"
ErrTimeout == "timeout waiting for auth response"
ErrRead == "failed to read auth response"
ErrInvalid == "invalid token"
ErrNoResponse == "no response received for token validation"

\* what a validation leaves alone, apart from the event streams
valFrame == <<rlVars, started, services, metrics, metricsMu, callVars, snap,
              req, hdrVars, hcVars, loopVars, kept>>

\* the user that the auth service names in its answer to request id r
UserOf(r) == r

\* a check that takes any message for the answer
IsOurResponseAny(requestID, response) == TRUE

\* line 336: the message answers this call
IsOurResponse(requestID, response) == response.RequestID = requestID

\* an acknowledgement sent twice
XAckTwice(log, id) == Append(Append(log, id), id)

\* line 338: the message is acknowledged to the consumer group
XAck(log, id) == Append(log, id)

\* lines 269-283: the call starts and generates its request id; calls
\* being interchangeable, they start in the order of their ids
vStart(c) ==
    /\ vpc[c] = "idle"
    /\ \A d \in ValidateCalls : d < c => vpc[d] # "idle"
    /\ vpc' = [vpc EXCEPT ![c] = "xadd"]
    /\ UNCHANGED <<valFrame, streams, vret, vmsg, windowElapsed, answered,
                   authResponses, lastDelivered, pending, acked>>

\* lines 286-295: the request is appended to auth-requests, or the append
\* fails
vXAdd(c) ==
    /\ vpc[c] = "xadd"
    /\ \/ /\ streams' = [streams EXCEPT !.auth = @ + 1]
          /\ vpc' = [vpc EXCEPT ![c] = "read"]
          /\ vret' = vret
       \/ /\ streams' = streams
          /\ vpc' = [vpc EXCEPT ![c] = "returned"]
          /\ vret' = [vret EXCEPT ![c].err = ErrSend]
    /\ UNCHANGED <<valFrame, vmsg, windowElapsed, answered, authResponses,
                   lastDelivered, pending, acked>>

\* lines 306-312 and 322-348: XReadGroup of consumer group gateway-auth
\* with id ">" and Count 1 returns the first message of the stream not yet
\* delivered to a consumer of the group; the call acknowledges it and
\* answers if it is its response, and returns an error otherwise
vRead(c) ==
    /\ vpc[c] = "read"
    /\ lastDelivered < Len(authResponses)
    /\ LET id == lastDelivered + 1
           message == authResponses[id]
       IN /\ lastDelivered' = id
          /\ vmsg' = [vmsg EXCEPT ![c] = message]
          /\ IF IsOurResponse(c, message)
             THEN /\ acked' = XAck(acked, id)
                  /\ pending' = pending
                  /\ vret' = [vret EXCEPT ![c] =
                                 IF message.Valid
                                 THEN [user |-> message.User, err |-> NoErr]
                                 ELSE [user |-> NoUser, err |-> ErrInvalid]]
             ELSE /\ acked' = acked
                  /\ pending' = pending \cup {<<id, c>>}
                  /\ vret' = [vret EXCEPT ![c].err = ErrNoResponse]
    /\ vpc' = [vpc EXCEPT ![c] = "returned"]
    /\ UNCHANGED <<valFrame, streams, windowElapsed, answered, authResponses>>

\* lines 314-318: no message came for the whole Block timeout and
\* XReadGroup returned redis.Nil
vTimeout(c) ==
    /\ vpc[c] = "read"
    /\ lastDelivered = Len(authResponses)
    /\ windowElapsed' = [windowElapsed EXCEPT ![c] = TRUE]
    /\ vret' = [vret EXCEPT ![c].err = ErrTimeout]
    /\ vpc' = [vpc EXCEPT ![c] = "returned"]
    /\ UNCHANGED <<valFrame, streams, vmsg, answered, authResponses,
                   lastDelivered, pending, acked>>

\* lines 314-319: XReadGroup failed
vReadError(c) ==
    /\ vpc[c] = "read"
    /\ vret' = [vret EXCEPT ![c].err = ErrRead]
    /\ vpc' = [vpc EXCEPT ![c] = "returned"]
    /\ UNCHANGED <<valFrame, streams, vmsg, windowElapsed, answered,
                   authResponses, lastDelivered, pending, acked>>

validateTokenViaRedis(c) ==
    vStart(c) \/ vXAdd(c) \/ vRead(c) \/ vTimeout(c) \/ vReadError(c)

\* the request ids that have been published on auth-requests
Published == {c \in ValidateCalls : vpc[c] \in {"read", "returned"}}

\* the auth service, or the auth service answering another gateway
\* instance, appends a response to auth-responses
AuthRespond(r, valid) ==
    /\ Len(authResponses) < MaxMessages
    /\ r \in Published \cup {Foreign}
    /\ authResponses' =
          Append(authResponses,
                 [RequestID |-> r, Valid |-> valid, User |-> UserOf(r),
                  late |-> r \in ValidateCalls /\ vpc[r] = "returned"
                           /\ windowElapsed[r]])
    /\ answered' = [c \in ValidateCalls |->
                       answered[c] \/ (c = r /\ valid /\ vpc[c] = "read")]
    /\ UNCHANGED <<valFrame, streams, vpc, vret, vmsg, windowElapsed,
                   lastDelivered, pending, acked>>

InitValidate ==
    InitRateLimiter /\ rpm = 1 /\ burst = 1 /\ InitProcessor /\ IdleExt

NextValidate ==
    \/ \E c \in ValidateCalls : validateTokenViaRedis(c)
    \/ \E r \in ValidateCalls \cup {Foreign}, valid \in BOOLEAN : AuthRespond(r, valid)

SpecValidate == InitValidate /\ [][NextValidate]_vars

\* ------------------------------------------------------------------------
\* GetMetrics step by step, next to the probes
\* ------------------------------------------------------------------------

\* the holder of the read lock of GatewayMetrics.mu
Reader == -1

\* GetMetrics, lines 309-321: the read lock is taken and the counters read
GetMetricsBegin ==
    /\ alive
    /\ kept = NoKept
    /\ metricsMu = 0
    /\ metricsMu' = Reader
    /\ kept' = [taken |-> FALSE, before |-> mHealth]
    /\ UNCHANGED <<rlVars, started, services, metrics, streams, callVars, snap,
                   req, hdrVars, hcVars, loopVars, valVars>>

\* the value returned by a GetMetrics call that read the health map h
ReturnedValue(h) ==
    [taken |-> TRUE,
     value |-> GetMetricsValue(metrics, h),
     seen |-> [Live EXCEPT !.HealthStats = [s \in DOMAIN h |-> CopyResult(h[s])]]]

\* GetMetrics, lines 323-340: the two maps are copied and the lock released.
\* A store of line 266 that ran meanwhile was not serialized with the range
\* of line 335: the range may show the map before or after the store, or
\* the runtime may end the process on the concurrent map access
GetMetricsEnd ==
    /\ alive
    /\ metricsMu = Reader
    /\ metricsMu' = 0
    /\ \/ /\ kept' \in {ReturnedValue(mHealth), ReturnedValue(kept.before)}
          /\ alive' = alive
       \/ /\ kept.before # mHealth
          /\ kept' = NoKept
          /\ alive' = FALSE
    /\ UNCHANGED <<rlVars, started, services, metrics, streams, callVars, snap,
                   req, hdrVars, hcVars, valVars, stopChan, hlpc, hlServices,
                   hlRounds, mcpc, mcRounds, mcCopy>>

InitRace ==
    InitRateLimiter /\ rpm = 1 /\ burst = 1 /\ InitProcessor /\ IdleExt

\* on-demand probes while GetMetrics runs
NextRace ==
    \/ alive /\ Start
    \/ \E t \in Callers, s \in Registry : alive /\ CheckServiceHealth(t, s)
    \/ \E t \in Callers : alive /\ performHealthCheckOf(t, LoopOutcomes)
    \/ \E t \in Callers : alive /\ CheckReturn(t)
    \/ GetMetricsBegin
    \/ GetMetricsEnd

SpecRace == InitRace /\ [][NextRace]_vars

\* ------------------------------------------------------------------------
\* Headers of the outbound request (handlers/gateway_handler.go and
\* ProxyRequest)
\* ------------------------------------------------------------------------

\* maps from some of the header names to values
HeaderMaps == UNION {[S -> HeaderValues] : S \in SUBSET HeaderNames}

\* the deny-list of isSystemHeader
systemHeaders ==
    <<"Authorization", "Content-Length", "Content-Type", "Host",
      "User-Agent", "Accept-Encoding", "Connection">>

\* strings.ToLower on the header names in use
ToLower(h) ==
    CASE h = "Authorization" -> "authorization"
      [] h = "Content-Length" -> "content-length"
      [] h = "Content-Type" -> "content-type"
      [] h = "Host" -> "host"
      [] h = "User-Agent" -> "user-agent"
      [] h = "Accept-Encoding" -> "accept-encoding"
      [] h = "Connection" -> "connection"
      [] h = "X-User-ID" -> "x-user-id"
      [] h = "X-Custom" -> "x-custom"

isSystemHeader(header) ==
    \E i \in 1..Len(systemHeaders) : ToLower(systemHeaders[i]) = ToLower(header)

\* getUserID: the inbound X-User-ID header if not empty, else the user id
\* of the request context, else ""
getUserID(hdr, ctx) ==
    IF "X-User-ID" \in DOMAIN hdr /\ hdr["X-User-ID"] # ""
    THEN hdr["X-User-ID"]
    ELSE IF ctx # NoCtx THEN ctx ELSE ""

\* Proxy, lines 41-47: the headers handed to ProxyRequest
ExtractedHeaders(hdr) ==
    [h \in {k \in DOMAIN hdr : ~isSystemHeader(k)} |-> hdr[h]]

\* the tracing headers ProxyRequest sets, lines 145-148
TracingHeaders(uid) ==
    [h \in {"X-Request-ID", "X-User-ID", "X-Gateway-Timestamp", "X-Service-Name"} |->
        CASE h = "X-Request-ID" -> "requestID"
          [] h = "X-User-ID" -> uid
          [] h = "X-Gateway-Timestamp" -> "startTime"
          [] h = "X-Service-Name" -> "service"]

\* ProxyRequest, lines 139-148: the caller's headers, then the tracing
\* headers over them
OutboundHeaders(hdr, uid) ==
    LET t == TracingHeaders(uid)
    IN [h \in DOMAIN hdr \cup DOMAIN t |-> IF h \in DOMAIN t THEN t[h] ELSE hdr[h]]

\* an authenticated request has reached the handler
InitHeaders ==
    /\ hpc = "inbound"
    /\ inbound \in HeaderMaps
    /\ ctxUser \in Users \cup {NoCtx}
    /\ headers = NoHeaders
    /\ userID = ""
    /\ outbound = NoHeaders

\* Proxy, lines 38-50: the handler takes the caller and the headers from
\* the request and calls ProxyRequest
ExtractHeaders ==
    /\ hpc = "inbound"
    /\ userID' = getUserID(inbound, ctxUser)
    /\ headers' = ExtractedHeaders(inbound)
    /\ hpc' = "extracted"
    /\ UNCHANGED <<rlVars, nonRLVarsBase, hcVars, loopVars, kept, valVars,
                   inbound, ctxUser, outbound>>

\* ProxyRequest, lines 132-148: the outbound request is built
BuildOutbound ==
    /\ hpc = "extracted"
    /\ outbound' = OutboundHeaders(headers, userID)
    /\ hpc' = "built"
    /\ UNCHANGED <<rlVars, nonRLVarsBase, hcVars, loopVars, kept, valVars,
                   inbound, ctxUser, headers, userID>>

NextHeaders == ExtractHeaders \/ BuildOutbound

\* one inbound request in the handler, everything else as constructed
InitHandler ==
    /\ InitRateLimiter /\ rpm = 1 /\ burst = 1 /\ InitProcessor
    /\ InitHeaders /\ IdleHealth /\ IdleLoops /\ kept = NoKept /\ IdleValidate

SpecHeaders == InitHandler /\ [][NextHeaders]_vars

\* ------------------------------------------------------------------------
\* Properties of the rate limiter
\* ------------------------------------------------------------------------

\* number of calls of client c admitted in the current instant
Granted(c) == Cardinality({i \in 1..Len(hist[c]) : hist[c][i].ok})

\* 60/rpm seconds
Period == SecondsPerMinute \div rpm

\* C1: under any interleaving of concurrent Allow calls of one client with
\* no time elapsing, the number of calls that return true never exceeds
\* burst.
C1_GrantsWithinBurst == \A c \in ClientIDs : Granted(c) <= burst

\* C2: for a client first seen in the current instant, sequential Allow
\* calls made while no time elapses return true for the first burst calls
\* and false for the call after them.
C2_BurstThenDeny ==
    \A c \in ClientIDs :
        firstSeen[c] = now =>
            \A i \in 1..Len(hist[c]) : hist[c][i].ok = (i <= burst)

\* the client's first burst+1 calls have all returned in its first instant
C2_Witness ==
    \E c \in ClientIDs :
        /\ firstSeen[c] = now
        /\ Len(hist[c]) = burst + 1
        /\ burst = MaxBurst
        /\ \A p \in Procs : pc[p] = "idle"

\* C3: once a client's bucket is empty, if 60/rpm seconds elapse without
\* an Allow call of that client, its next Allow call returns true and the
\* call right after it, with no further time elapsing, returns false.
C3_OneTokenPerPeriod ==
    \A c \in ClientIDs :
        (lastCall[c].left = 0 /\ now = lastCall[c].t + Period) =>
            /\ Len(hist[c]) >= 1 => hist[c][1].ok
            /\ Len(hist[c]) >= 2 => ~hist[c][2].ok

\* an emptied bucket, one period later, has answered two calls
C3_Witness ==
    \E c \in ClientIDs :
        /\ lastCall[c].left = 0
        /\ now = lastCall[c].t + Period
        /\ Len(hist[c]) >= 2
        /\ burst = MaxBurst
        /\ rpm = 1

\* ------------------------------------------------------------------------
\* Properties of the proxy engine and of the metrics aggregator
\* ------------------------------------------------------------------------

Balanced(m) == m.TotalRequests = m.SuccessRequests + m.ErrorRequests

\* C5: whenever no task is inside a metrics critical section, total equals
\* success plus error for the global counters and for every service, under
\* any interleaving of concurrent ProxyRequest calls.
C5_TotalIsSuccessPlusError ==
    metricsMu = 0 =>
        /\ Balanced(metrics)
        /\ \A s \in DOMAIN metrics.ServiceMetrics :
               Balanced(metrics.ServiceMetrics[s])

\* two calls are in flight, both outcomes have been counted
C5_Witness ==
    /\ metricsMu = 0
    /\ \A p \in Procs : pc[p] \notin {"idle", "returned"}
    /\ metrics.ErrorRequests >= 1
    /\ "echo" \in DOMAIN metrics.ServiceMetrics
    /\ metrics.ServiceMetrics["echo"].ErrorRequests >= 1
    /\ metrics.ServiceMetrics["echo"].SuccessRequests >= 2

\* C6: a call that made the upstream call adds one to the success counter
\* and nothing to the error counter if it received a status in [200, 400),
\* and one to the error counter and nothing to the success counter
\* otherwise.
C6_SuccessIffStatusInRange ==
    \A p \in Procs :
        (pc[p] = "returned" /\ trace[p].http = 1) =>
            IF resp[p].err = NoErr /\ Success(resp[p].status)
            THEN trace[p].succ = 1 /\ trace[p].err = 0
            ELSE trace[p].succ = 0 /\ trace[p].err = 1

\* C7: a snapshot taken when every call made to a registered service has
\* returned with a status in [200, 400) shows, for that service, total and
\* success equal to the number of those calls, and no error.
C7_SnapshotCountsCalls ==
    snap.taken =>
        \A s \in DOMAIN snap.metrics.ServiceMetrics :
            snap.made[s] = snap.okDone[s] =>
                /\ snap.metrics.ServiceMetrics[s].TotalRequests = snap.okDone[s]
                /\ snap.metrics.ServiceMetrics[s].SuccessRequests = snap.okDone[s]
                /\ snap.metrics.ServiceMetrics[s].ErrorRequests = 0

\* a snapshot taken after two successful calls to echo and nothing else
C7_Witness ==
    /\ snap.taken
    /\ "echo" \in DOMAIN snap.metrics.ServiceMetrics
    /\ snap.okDone["echo"] >= 2
    /\ snap.made["echo"] = snap.okDone["echo"]

\* C8: a call for a service name absent from the service table makes no
\* upstream call and returns the service-not-found error.
C8_NotFoundNoUpstreamCall ==
    \A p \in Procs :
        (pc[p] # "idle" /\ svc[p] \notin services) =>
            /\ trace[p].http = 0
            /\ pc[p] = "returned" => resp[p].err = "ServiceNotFound"

\* a call for a name outside the started registry has returned
C8_Witness ==
    \E p \in Procs :
        /\ started
        /\ pc[p] = "returned"
        /\ svc[p] \notin services

\* C9: every call, whatever its outcome, has published exactly one log
\* event and exactly one metrics event when it returns.
C9_OneLogOneMetricsEvent ==
    \A p \in Procs :
        pc[p] = "returned" => trace[p].logs = 1 /\ trace[p].events = 1

\* C10: a call whose upstream call timed out or failed in the transport
\* has recorded one error outcome and its elapsed duration in the metrics
\* when it returns the error.
C10_UpstreamFailureRecorded ==
    \A p \in Procs :
        (pc[p] = "returned"
            /\ resp[p].err \in {"UpstreamTimeout", "UpstreamUnreachable"}) =>
                /\ trace[p].err = 1
                /\ trace[p].lat = 1
                /\ metrics.ErrorRequests >= 1

\* both kinds of upstream failure have been returned
C10_Witness ==
    /\ \E p \in Procs : pc[p] = "returned" /\ resp[p].err = "UpstreamTimeout"
    /\ \E p \in Procs : pc[p] = "returned" /\ resp[p].err = "UpstreamUnreachable"

\* ------------------------------------------------------------------------
\* Properties of the middleware chain
\* ------------------------------------------------------------------------

\* C4: a request denied by the rate limiter is answered at once and goes no
\* further: it publishes no validation request on auth-requests, makes no
\* backend call, and is not kept for a later admission.
C4_DeniedGoesNoFurther ==
    \A p \in Procs :
        req[p].limited =>
            /\ pc[p] = "responded"
            /\ req[p].code = StatusTooManyRequests
            /\ req[p].authSent = 0
            /\ trace[p].http = 0
            /\ trace[p].succ + trace[p].err = 0

\* one request of a client has passed Auth and gone through ProxyRequest,
\* another was denied
C4_Witness ==
    \E p, q \in Procs :
        /\ req[p].limited
        /\ cid[q] = cid[p]
        /\ req[q].authSent = 1
        /\ trace[q].logs = 1
        /\ trace[q].succ + trace[q].err = 2

\* ------------------------------------------------------------------------
\* Properties of the outbound headers
\* ------------------------------------------------------------------------

\* C11: when the inbound request carries an Authorization header, the
\* outbound request built for the backend carries the same Authorization
\* header.
C11_AuthorizationForwarded ==
    (hpc = "built" /\ "Authorization" \in DOMAIN inbound) =>
        /\ "Authorization" \in DOMAIN outbound
        /\ outbound["Authorization"] = inbound["Authorization"]

\* ------------------------------------------------------------------------
\* Properties of the health checker
\* ------------------------------------------------------------------------

\* the probe of task t has made its result
Probed(t) ==
    /\ prb[t].pc \in {"store", "store_metrics", "log", "ret"}
    /\ prb[t].result # NoResult

\* C12: the result of a probe is healthy if and only if the probe got a
\* response with status 200; on a transport error or any other status it
\* is unhealthy with the error text or "status code: N" as its error; that
\* result is the one stored for the service and the one returned.
C12_HealthyIffStatus200 ==
    \A t \in ProbeTasks :
        Probed(t) =>
            LET r == prb[t].result
                g == prb[t].got
            IN /\ (r.Status = "healthy") <=> (g.err = NoErr /\ g.status = 200)
               /\ r.Status \in {"healthy", "unhealthy"}
               /\ r.Status = "unhealthy" =>
                     /\ r.Error # ""
                     /\ r.Error = IF g.err # NoErr THEN g.err
                                  ELSE "status code: " \o ToString(g.status)
               /\ prb[t].pc = "store_metrics" => healthStats[prb[t].service] = r
               /\ prb[t].pc = "ret" => prb[t].err = NoErr

\* a probe that got status 201 has returned, after one that got 200
C12_Witness ==
    \E t \in ProbeTasks :
        /\ prb[t].pc = "ret"
        /\ prb[t].got.status = 201
        /\ prb[t].result.id = 2
        /\ mHealth[prb[t].service] = prb[t].result

\* C13: the map returned by GetServicesStatus has exactly the services of
\* the service table as its keys; a service with no stored probe result is
\* reported with status unknown, a probed one with the result stored last.
C13_StatusCoversServices ==
    status.taken =>
        /\ DOMAIN status.result = status.services
        /\ \A s \in status.services :
              IF s \in DOMAIN status.lastStore
              THEN /\ status.result[s].Timestamp = status.lastStore[s]
                   /\ status.result[s].Status \in {"healthy", "unhealthy"}
                   /\ status.result[s].Service = s
              ELSE /\ status.result[s].Status = "unknown"
                   /\ status.result[s].Service = s

\* a status map with a service probed twice and one never probed
C13_Witness ==
    /\ status.taken
    /\ status.services = Registry
    /\ \E s \in Registry : s \notin DOMAIN status.lastStore
    /\ \E s \in Registry :
          s \in DOMAIN status.lastStore /\ status.result[s].Timestamp = 2

\* the positions of the health loop inside a checkAllServices call
InTick == {"check", "wait", "summary"}

\* C14: once the stop channel is closed both background loops come to their
\* end; a tick of the health loop that is in flight at that point runs to
\* completion, all its probes returned, before the loop exits; and the loop
\* that has exited has no probe running
C14_LoopsStopCleanly ==
    /\ (stopChan = "closed") ~> (~alive \/ (hlpc = "stopped" /\ mcpc = "stopped"))
    /\ (stopChan = "closed" /\ hlpc \in InTick) ~> (hlpc \notin InTick)
    /\ [](hlpc = "stopped" => \A s \in Registry : prb[s].pc = "idle")

\* C15: the value that GetMetrics returned shows its holder the same
\* counters, the same per-service entries and the same health entries
\* whatever is recorded or probed after the call returned
C15_SnapshotUnaffected ==
    kept.taken => Seen(kept.value) = kept.seen

\* the live state has moved on since the value was returned: a counter, the
\* entry of a service and the health entry of a service all differ
C15_Witness ==
    /\ kept.taken
    /\ kept.seen.TotalRequests # Live.TotalRequests
    /\ \E s \in DOMAIN kept.seen.ServiceMetrics :
          kept.seen.ServiceMetrics[s] # Live.ServiceMetrics[s]
    /\ \E s \in DOMAIN kept.seen.HealthStats :
          kept.seen.HealthStats[s] # Live.HealthStats[s]

\* the call has returned a user
ReturnedUser(c) == vpc[c] = "returned" /\ vret[c].err = NoErr

\* C16: a call returns a user only if it read a message that carries its
\* own request id and is marked valid, and the user is that of the message;
\* a message with another request id is never taken for the answer
C16_OnlyMatchingValidAccepted ==
    \A c \in ValidateCalls :
        /\ ReturnedUser(c) =>
              /\ vmsg[c].RequestID = c
              /\ vmsg[c].Valid
              /\ vret[c].user = vmsg[c].User
              /\ vret[c].user = UserOf(c)
        /\ (vpc[c] = "returned" /\ vmsg[c] # NoMsg /\ vmsg[c].RequestID # c) =>
              /\ vret[c].user = NoUser
              /\ vret[c].err # NoErr

\* the second call has returned its user although another call's message
\* went through the stream before
C16_Witness ==
    /\ ReturnedUser(2)
    /\ vret[2].user = UserOf(2)
    /\ lastDelivered = 2
    /\ authResponses[1].RequestID # 2

\* the call has read a message that is not its response
ReadMismatch(c) == vmsg[c] # NoMsg /\ vmsg[c].RequestID # c

\* C17: a call that has read a message with another request id has not
\* returned: it is still waiting on the response stream
C17_MismatchKeepsWaiting ==
    \A c \in ValidateCalls : ReadMismatch(c) => vpc[c] = "read"

\* a response with the request id of the call is on the stream
HasResponse(c) ==
    \E i \in 1..Len(authResponses) : authResponses[i].RequestID = c

\* C18: a call that published its request, whose read did not fail, and
\* that has returned without any response with its request id on the
\* stream has failed with the timeout error after its whole wait window,
\* whatever other messages came
C18_TimeoutOnlyAfterWindow ==
    \A c \in ValidateCalls :
        (vpc[c] = "returned" /\ vret[c].err \notin {ErrSend, ErrRead}
            /\ ~HasResponse(c)) =>
                vret[c].err = ErrTimeout /\ windowElapsed[c]

\* every message on the response stream is a valid response to one of the
\* calls
OnlyValidResponses ==
    \A i \in 1..Len(authResponses) :
        authResponses[i].RequestID \in ValidateCalls /\ authResponses[i].Valid

\* C19: when the stream carries nothing but valid responses to the calls,
\* each appended while its call was blocked in its read, and every call
\* has returned without a failed read, every call has returned its own user
C19_NoContention ==
    (/\ OnlyValidResponses
     /\ \A c \in ValidateCalls :
           vpc[c] = "returned" /\ answered[c] /\ vret[c].err # ErrRead) =>
        \A c \in ValidateCalls : ReturnedUser(c) /\ vret[c].user = UserOf(c)

\* C20: no call is handed a response that was appended after the call
\* that asked for it had timed out
C20_LateResponseNotDelivered ==
    \A c \in ValidateCalls : ~vmsg[c].late

\* C21: the sweep never removes a client's record under an Allow call that
\* has looked the record up, or stored it, and has not yet run its
\* refill-and-consume step: the client of such a call has a record in the
\* table
C21_NoEvictionUnderAllow ==
    \A p \in Procs :
        pc[p] \in {"allow", "allow_body"} => clients[cid[p]] # NoAddr

\* C22: every client record, in the table or in the hands of a call, whose
\* lock is not held has a token count between 0 and burst
C22_TokensWithinBurst ==
    \A a \in Addrs :
        (a \in Referenced(clients, client) /\ limiters[a].mu = 0) =>
            /\ 0 <= limiters[a].tokens
            /\ limiters[a].tokens <= burst

\* a record left with one token of two is used again a minute later, at two
\* requests per minute: the refill of two tokens is cut at burst
C22_Witness ==
    \E c \in ClientIDs :
        /\ burst = 2 /\ rpm = 2 /\ now = 60
        /\ lastCall[c] = [t |-> 0, left |-> 1, admit |-> 0]
        /\ Len(hist[c]) = 1 /\ hist[c][1].ok /\ hist[c][1].left = 1
        /\ clients[c] # NoAddr
        /\ limiters[clients[c]] = [tokens |-> 1, lastRefill |-> 60, mu |-> 0]

\* C23: the health map of the metrics is written only in states serialized
\* with its readers by the lock of the metrics: no probe stands at its store
\* into that map while GetMetrics holds the read lock and copies the map
C23_MetricsUnderOwnLock ==
    ~(/\ metricsMu = Reader
      /\ \E t \in ProbeTasks : prb[t].pc = "store_metrics")

\* C24: the counter increment and the latency update of a call are one
\* update: the call has counted itself exactly once when its latency is
\* applied, and no other call counts itself while the call stands between
\* its own count and its latency update
C24_CountAndLatencyTogether ==
    [][\A p \in Procs :
          /\ (pc[p] = "latency" /\ pc'[p] = "pr_metrics") =>
                trace[p].succ + trace[p].err = 1
          /\ \A q \in Procs \ {p} :
                ~(pc[p] = "latency" /\ pc[q] = "urm_total" /\ pc'[q] = "urm_class")]_vars

\* the mean of any number of latency samples, all samples being drawn from
\* Durations, which holds one value; zero when no sample has been applied
SampleMeans == {Rat(0, 1)} \cup {Rat(d, 1) : d \in Durations}

\* C25: with calls made one after the other, the global average latency and
\* the average latency of every service are the arithmetic mean of the
\* samples applied to them: the count used by a latency update is the
\* number of samples applied so far
C25_AverageIsMeanOfSamples ==
    /\ metrics.AverageLatency \in SampleMeans
    /\ \A s \in DOMAIN metrics.ServiceMetrics :
          metrics.ServiceMetrics[s].AverageLatency \in SampleMeans

\* the HealthCheckResult objects that the health table holds
LiveResults == {healthStats[s].id : s \in DOMAIN healthStats}

\* C26: no accessor returns an object of the health table: not
\* GetServicesStatus, in any entry of its map, and not CheckServiceHealth
C26_ReadersGetCopies ==
    /\ status.taken =>
          \A s \in DOMAIN status.result : status.result[s].id \notin LiveResults
    /\ \A t \in Callers :
          (prb[t].pc = "ret" /\ prb[t].err = NoErr) =>
              prb[t].result.id \notin LiveResults

\* the locks among gp.mu ("health"), gp.metrics.mu ("metrics") and rl.mu
\* ("clients") that each task holds
HeldByCollector ==
    (IF metricsMu = Collector THEN {"metrics"} ELSE {})
        \cup (IF gpMu = "collector" THEN {"health"} ELSE {})

HeldByProbe(t) == IF gpMu = t THEN {"health"} ELSE {}

HeldByRequest(p) == IF metricsMu = p THEN {"metrics"} ELSE {}

HeldBySweep == IF rlmu = "cleanup" THEN {"clients"} ELSE {}

\* C27: in every reachable state no task holds more than one of the
\* health-table lock, the metrics lock and the client-table lock
C27_OneLockAtATime ==
    /\ Cardinality(HeldByCollector) <= 1
    /\ \A t \in ProbeTasks : Cardinality(HeldByProbe(t)) <= 1
    /\ \A p \in Procs : Cardinality(HeldByRequest(p)) <= 1
    /\ Cardinality(HeldBySweep) <= 1

\* the collector counts the healthy services under gp.mu, after its copy,
\* while a probe waits for that lock
C27_Witness ==
    /\ mcpc = "counting"
    /\ HeldByCollector = {"health"}
    /\ mcCopy.services = Registry
    /\ \E t \in ProbeTasks : prb[t].pc = "store"

\* C30: the collector holds no metrics lock while it publishes, and a round
\* emits one global summary and one event per service of its snapshot
C30_PublishUnlocked ==
    /\ mcpc \in {"summary", "services"} => metricsMu # Collector
    /\ mcpc = "services" =>
           mcCopy.sent = 1 + Cardinality(mcCopy.services \ mcCopy.todo)
    /\ (mcpc \in {"select", "stopped"} /\ mcRounds > 0) =>
           mcCopy.sent = 1 + Cardinality(DOMAIN metrics.ServiceMetrics)

\* a round over a snapshot of two services has ended with three events
C30_Witness ==
    /\ mcpc = "select"
    /\ mcRounds = 1
    /\ mcCopy = [services |-> Registry, todo |-> {}, sent |-> 3]
    /\ streams.metrics >= 3
    /\ metricsMu = 0

\* the probe of service s has stored the result it made in both tables
StoredItsResult(s) ==
    /\ prb[s].pc = "ret"
    /\ prb[s].err = NoErr
    /\ s \in DOMAIN healthStats
    /\ healthStats[s] = prb[s].result

\* C28: a tick starts one probe per registered service, and its one
\* summary is published only once every probe of the tick has stored its
\* result
C28_SummaryAfterAllStored ==
    [][/\ (hlpc = "check" /\ hlpc' = "wait") =>
              /\ hlServices' = services
              /\ \A s \in services : prb'[s].pc = "new" /\ prb'[s].service = s
       /\ (hlpc = "wait" /\ hlpc' = "summary") =>
              \A s \in hlServices : StoredItsResult(s)
       /\ (hlpc = "summary" /\ hlpc' # "summary") =>
              streams'.logs = streams.logs + 1]_vars

\* C29: the eviction sweep stops with the shutdown: once the shutdown has
\* completed no iteration of the sweep starts
C29_NoSweepAfterShutdown ==
    [][ShutdownCompleted => ~(swpc = "wait" /\ swpc' = "sweep")]_vars

\* the number of XAck calls that named message i
AckCount(i) == Cardinality({k \in 1..Len(acked) : acked[k] = i})

\* C31: a message read by the call whose request id it carries is
\* acknowledged exactly once; a message read by any other call is never
\* acknowledged and stays pending in the consumer group
C31_AckOnceIffMatch ==
    \A i \in 1..Len(authResponses) :
        /\ i > lastDelivered => AckCount(i) = 0
        /\ i <= lastDelivered =>
              \/ /\ AckCount(i) = 1
                 /\ \A c \in ValidateCalls : <<i, c>> \notin pending
                 /\ \E c \in ValidateCalls :
                       /\ vpc[c] = "returned"
                       /\ vmsg[c] = authResponses[i]
                       /\ authResponses[i].RequestID = c
              \/ /\ AckCount(i) = 0
                 /\ \E c \in ValidateCalls :
                       /\ <<i, c>> \in pending
                       /\ vmsg[c] = authResponses[i]
                       /\ authResponses[i].RequestID # c

\* the first message went to a call it does not answer and stays pending,
\* the second was acknowledged by the call it answers
C31_Witness ==
    /\ lastDelivered = 2
    /\ acked = <<2>>
    /\ pending = {<<1, 1>>}
    /\ authResponses[1].RequestID = 2
    /\ authResponses[2].RequestID = 2
    /\ vpc[2] = "returned"

\* C32: no elapsed time is lost to the Allow calls made in between: a
\* client whose bucket was empty at its last call and whose last admission
\* lies 60/rpm seconds or more back is admitted at its next call
C32_ElapsedTimeNotLost ==
    \A c \in ClientIDs :
        (/\ lastCall[c].admit >= 0
         /\ lastCall[c].left = 0
         /\ now >= lastCall[c].admit + Period
         /\ Len(hist[c]) >= 1) => hist[c][1].ok

\* the ProxyRequest calls made so far, over all service names
RECURSIVE CallsMade(_)
CallsMade(S) ==
    IF S = {} THEN 0
    ELSE LET s == CHOOSE x \in S : TRUE IN made[s] + CallsMade(S \ {s})

\* no ProxyRequest call is in flight
NoneInFlight == \A p \in Procs : pc[p] \in {"idle", "returned"}

\* C33: every call, whatever its outcome, adds exactly one to the global
\* total and, for a registered service, one to that service's total: with no
\* call in flight the global total is the number of calls made, and a
\* service's total is at most the number of calls made for it (those made
\* before Start registered it are not counted for it)
C33_TotalCountsCalls ==
    NoneInFlight =>
        /\ metrics.TotalRequests = CallsMade(DOMAIN made)
        /\ \A s \in DOMAIN metrics.ServiceMetrics :
              started => metrics.ServiceMetrics[s].TotalRequests <= made[s]

\* C34: the X-User-ID header of the outbound request of an authenticated
\* request is the identity that Auth put in the request context, whatever
\* X-User-ID header the client sent
C34_ForwardedIdentityIsAuthenticated ==
    (hpc = "built" /\ ctxUser # NoCtx) => outbound["X-User-ID"] = ctxUser

\* C35: once the server is started and its first health tick runs, every
\* service of the configured registry is in the service table and has its
\* metrics entry
C35_RegistryLoadedBeforeFirstTick ==
    hlRounds >= 1 =>
        /\ services = Registry
        /\ DOMAIN metrics.ServiceMetrics = Registry

\* C36: under fair scheduling every Allow call returns and every sweep
\* iteration releases the table lock, however the calls and the sweep
\* interleave
C36_NoDeadlock ==
    /\ \A p \in Procs : (pc[p] # "idle") ~> (pc[p] = "idle")
    /\ (swpc = "sweep") ~> (swpc = "wait")

\* the sweep holds the table lock and has still to visit a client whose
\* lock a call holds
C36_Witness ==
    /\ swpc = "sweep"
    /\ rlmu = "cleanup"
    /\ \E p \in Procs :
          /\ pc[p] = "allow_body"
          /\ cid[p] \in swtodo
          /\ clients[cid[p]] = client[p]
          /\ limiters[client[p]].mu = p

====
